---- MODULE Spec2Model ----
(***************************************************************************)
(* Recommendation core of the travel planner                               *)
(* (modules/ml_nlp/recommendation_system.py): the similarity engine, the   *)
(* preference scorer and the recommendation orchestrator, as operators     *)
(* over small data frames, and a state machine that calls them.            *)
(*                                                                         *)
(* Numbers.  pandas works in float64; here every score is an exact         *)
(* rational [n, d] in lowest terms, and d = 0 is the float NaN (the value  *)
(* of 0/0), which propagates through arithmetic and fails every            *)
(* comparison as it does in IEEE arithmetic.  The cosine similarity, an    *)
(* irrational number in general, is truncated to a multiple of 1/SimScale. *)
(*                                                                         *)
(* Data frames.  A frame is [columns, rows]; a row is a function from      *)
(* "index" (the pandas index label) and the frame's column names to        *)
(* values.  A call returns [status, columns, rows] where status is "ok" or *)
(* the name of the exception it raised.                                    *)
(***************************************************************************)
EXTENDS Integers, Sequences, FiniteSets, TLC

MaxRows == 3      \* rows of a dataset
MaxTopN == 2      \* largest top_n a caller asks for
SimScale == 100   \* similarity scores are multiples of 1/SimScale
MaxCities == 120  \* largest dataset size the candidate range is computed for

None == "None"

(***************************************************************************)
(* Float arithmetic as exact rationals with NaN.                           *)
(***************************************************************************)
NaN == [n |-> 0, d |-> 0]

Abs(x) == IF x < 0 THEN -x ELSE x

Min2(a, b) == IF a <= b THEN a ELSE b

RECURSIVE GCD(_, _)
GCD(a, b) == IF b = 0 THEN a ELSE GCD(b, a % b)

Rat(n, d) ==
  IF d = 0 THEN NaN
  ELSE LET s == IF d < 0 THEN -1 ELSE 1
           g == GCD(Abs(n), Abs(d))
       IN  [n |-> (s * n) \div g, d |-> (s * d) \div g]

R(i) == [n |-> i, d |-> 1]

IsNaN(x) == x.d = 0

RAdd(x, y) == IF IsNaN(x) \/ IsNaN(y) THEN NaN ELSE Rat(x.n * y.d + y.n * x.d, x.d * y.d)

RSub(x, y) == IF IsNaN(x) \/ IsNaN(y) THEN NaN ELSE Rat(x.n * y.d - y.n * x.d, x.d * y.d)

RMul(x, y) == IF IsNaN(x) \/ IsNaN(y) THEN NaN ELSE Rat(x.n * y.n, x.d * y.d)

\* x / y; the only zero divisor the scorer meets divides 0 (0/0 = NaN).
RDiv(x, y) == IF IsNaN(x) \/ IsNaN(y) THEN NaN ELSE Rat(x.n * y.d, x.d * y.n)

\* x.n / x.d < y.n / y.d, compared over the least common denominator
Less(x, y, g) == x.n * (y.d \div g) < y.n * (x.d \div g)

RLt(x, y) ==
  /\ ~IsNaN(x)
  /\ ~IsNaN(y)
  /\ IF x.d = y.d THEN x.n < y.n ELSE Less(x, y, GCD(x.d, y.d))

RLe(x, y) == ~IsNaN(x) /\ ~IsNaN(y) /\ ~RLt(y, x)

\* Series.clip(lower=lo): NaN stays NaN.
ClipLower(x, lo) == IF RLt(x, lo) THEN lo ELSE x

\* Series.clip(lo, hi)
Clip(x, lo, hi) == IF RLt(x, lo) THEN lo ELSE IF RLt(hi, x) THEN hi ELSE x

(***************************************************************************)
(* pandas helpers.                                                         *)
(***************************************************************************)
\* dict.get(k, default)
Get(d, k, default) == IF k \in DOMAIN d THEN d[k] ELSE default

\* frame[c] = v on one row
SetCol(r, c, v) == (c :> v) @@ r

\* An optional value is <<>> (absent, or Python's None for an argument) or <<v>>.
Absent == <<>>

Some(v) == <<v>>

\* pd.DataFrame()
EmptyDataFrame == [columns |-> {}, rows |-> <<>>]

Ok(frame) == [status |-> "ok", columns |-> frame.columns, rows |-> frame.rows]

Raise(exc) == [status |-> exc, columns |-> {}, rows |-> <<>>]

RECURSIVE SumSeq(_)
SumSeq(s) == IF s = <<>> THEN 0 ELSE Head(s) + SumSeq(Tail(s))

SeqMin(s) == CHOOSE x \in {s[i] : i \in DOMAIN s} : \A j \in DOMAIN s : x <= s[j]

SeqMax(s) == CHOOSE x \in {s[i] : i \in DOMAIN s} : \A j \in DOMAIN s : x >= s[j]

\* [col for col in cols if col in df.columns]
PresentCols(cols, columns) == SelectSeq(cols, LAMBDA c : c \in columns)

\* DataFrame.head(n)
head(rows, n) == SubSeq(rows, 1, Min2(n, Len(rows)))

\* The order of equal keys that the sort of this build produces: pandas sorts
\* with kind='quicksort', which is not stable.
SortKinds == {"stable", "reversed"}

\* Mutant: ascending=False is forgotten.
sort_values_ascending(rows, key, kind) ==
  LET n == Len(rows)
      k == [i \in 1..n |-> rows[i][key]]
      Before(i, j) ==
        \/ RLt(k[i], k[j])
        \/ ~IsNaN(k[i]) /\ IsNaN(k[j])
        \/ /\ IsNaN(k[i]) /\ IsNaN(k[j])
           /\ i < j
        \/ /\ ~IsNaN(k[i]) /\ k[i] = k[j]
           /\ IF kind = "stable" THEN i < j ELSE j < i
      rank == [i \in 1..n |-> Cardinality({j \in 1..n : Before(j, i)})]
  IN  [p \in 1..n |-> rows[CHOOSE i \in 1..n : rank[i] = p - 1]]

\* DataFrame.sort_values(key, ascending=False): descending by key, NaN keys
\* last in their original order, equal keys in the order of the sort kind.
sort_values(rows, key, kind) ==
  LET n == Len(rows)
      k == [i \in 1..n |-> rows[i][key]]
      Before(i, j) ==
        \/ RLt(k[j], k[i])
        \/ ~IsNaN(k[i]) /\ IsNaN(k[j])
        \/ /\ IsNaN(k[i]) /\ IsNaN(k[j])
           /\ i < j
        \/ /\ ~IsNaN(k[i]) /\ k[i] = k[j]
           /\ IF kind = "stable" THEN i < j ELSE j < i
      rank == [i \in 1..n |-> Cardinality({j \in 1..n : Before(j, i)})]
  IN  [p \in 1..n |-> rows[CHOOSE i \in 1..n : rank[i] = p - 1]]

(***************************************************************************)
(* The dataset: city records with two of the nine activity scores, the     *)
(* budget tier, both seasonal temperatures, one special-filter flag and    *)
(* one trip-duration flag.                                                 *)
(***************************************************************************)
AllColumns ==
  {"city", "country", "culture", "nature", "budget_numeric",
   "avg_temp_summer", "avg_temp_winter", "family_friendly", "weekend"}

City(city, country, culture, nature, budget, summer, winter, family, weekend) ==
  [city |-> city, country |-> country, culture |-> culture, nature |-> nature,
   budget_numeric |-> budget, avg_temp_summer |-> summer,
   avg_temp_winter |-> winter, family_friendly |-> family, weekend |-> weekend]

CityPool ==
  { City("Paris", "France", 10, 4, 3, 12, 3, 0, 1),
    City("Paris", "USA",     2, 6, 1, 12, 5, 1, 0),
    City("Rome",  "Italy",  10, 4, 3, 12, 3, 1, 1),
    City("Oslo",  "Norway",  0, 0, 2, -8, -5, 1, 1) }

\* The datasets differ in which optional feature columns they carry.
ColumnSets ==
  { AllColumns, AllColumns \ {"avg_temp_summer"}, AllColumns \ {"budget_numeric"} }

\* Sequences of 1..MaxRows distinct city records.
RecordSeqs ==
  UNION { { s \in [1..n -> CityPool] : \A i, j \in 1..n : i # j => s[i] # s[j] }
          : n \in 1..MaxRows }

\* A frame over `columns` with the default RangeIndex.
MakeFrame(recs, columns) ==
  [columns |-> columns,
   rows |-> [i \in 1..Len(recs) |->
              ("index" :> (i - 1)) @@ [c \in columns |-> recs[i][c]]]]

DataFrames == { MakeFrame(s, cs) : s \in RecordSeqs, cs \in ColumnSets }

(***************************************************************************)
(* Similarity engine: calculate_city_similarity.                           *)
(***************************************************************************)
DefaultActivityCols ==
  <<"culture", "adventure", "nature", "beaches", "nightlife",
    "cuisine", "wellness", "urban", "seclusion">>

Dot(x, y) == SumSeq([i \in DOMAIN x |-> x[i] * y[i]])

\* floor(SimScale * sqrt(q)) for a rational 0 <= q <= 1
ScaledRoot(q) ==
  CHOOSE s \in 0..SimScale :
    /\ s * s * q.d <= SimScale * SimScale * q.n
    /\ (s + 1) * (s + 1) * q.d > SimScale * SimScale * q.n

\* sklearn cosine_similarity of two vectors: each is divided by its norm (a
\* zero vector is left as it is), then the dot product is taken.
cosine_similarity(x, y) ==
  LET dot == Dot(x, y)
      nx == Dot(x, x)
      ny == Dot(y, y)
  IN  IF nx = 0 \/ ny = 0 \/ dot = 0 THEN R(0)
      ELSE Rat((IF dot < 0 THEN -1 ELSE 1) * ScaledRoot(Rat(dot * dot, nx * ny)),
               SimScale)

\* Mutant: no guard for a missing reference, so ref_city.iloc[0] raises.
MissingReferenceUnguarded == Raise("IndexError")

\* if ref_city.empty: return pd.DataFrame()
MissingReference == Ok(EmptyDataFrame)

\* Mutant: the reference city's rows are kept.
DropReferenceNothing(rows, reference_city) == rows

\* result_df[result_df['city'] != reference_city]
DropReference(rows, reference_city) ==
  SelectSeq(rows, LAMBDA r : r.city # reference_city)

\* Lines 32-51: the similarity column written into result_df
SimilarityInPlace(df, reference_city, activity_cols) ==
  LET acts == IF activity_cols = Absent THEN DefaultActivityCols ELSE activity_cols[1]
      ref_rows == SelectSeq(df.rows, LAMBDA r : r.city = reference_city)
  IN  IF ref_rows = <<>> THEN MissingReference
      ELSE
        LET ref_city == ref_rows[1]
            feature_cols ==
              PresentCols(acts \o <<"budget_numeric", "avg_temp_summer", "avg_temp_winter">>,
                          df.columns)
            features(r) == [i \in DOMAIN feature_cols |-> r[feature_cols[i]]]
            scored == [i \in DOMAIN df.rows |->
                         SetCol(df.rows[i], "similarity_score",
                                cosine_similarity(features(ref_city), features(df.rows[i])))]
        IN  IF feature_cols = <<>> THEN Raise("ValueError")
            ELSE Ok([columns |-> df.columns \cup {"similarity_score"}, rows |-> scored])

\* Lines 54-55: the reference city's rows dropped, the rest sorted; the empty
\* result for a missing reference and an exception pass through
SortedSimilar(in_place, reference_city, kind) ==
  IF in_place.status # "ok" \/ "similarity_score" \notin in_place.columns THEN in_place
  ELSE Ok([columns |-> in_place.columns,
           rows |-> sort_values(DropReference(in_place.rows, reference_city),
                                "similarity_score", kind)])

calculate_city_similarity(df, reference_city, activity_cols, kind) ==
  SortedSimilar(SimilarityInPlace(df, reference_city, activity_cols), reference_city, kind)

(***************************************************************************)
(* Preference scorer: recommend_cities_by_preferences.                     *)
(***************************************************************************)
budget_mapping == ("Budget" :> 1) @@ ("Mid-range" :> 2) @@ ("Luxury" :> 3)

\* Mutant: the mean is not normalized.
NormalizeActivitySkipped(mean, max_score) == mean

\* Step 1: the row's mean over the selected columns, divided by the largest
\* such mean of the dataset when that is positive.
NormalizeActivity(mean, max_score) ==
  IF RLt(R(0), max_score) THEN RDiv(mean, max_score) ELSE mean

\* Mutant: a neighbouring tier scores nothing.
BudgetMatchExactOnly(budget_numeric, user_budget) ==
  IF budget_numeric = user_budget THEN R(1) ELSE R(0)

\* Step 2: 1.0 for the user's tier, 0.5 for a neighbouring tier, else 0.
BudgetMatch(budget_numeric, user_budget) ==
  IF Abs(budget_numeric - user_budget) = 1 THEN Rat(1, 2)
  ELSE IF budget_numeric = user_budget THEN R(1)
  ELSE R(0)

\* Step 3: the temperature score of a summer temperature t in a dataset
\* whose summer temperatures span tmin..tmax.
TempScore(temp_preference, t, tmin, tmax) ==
  IF temp_preference = "warm" THEN RDiv(R(t - tmin), R(tmax - tmin))
  ELSE IF temp_preference = "cold" THEN RSub(R(1), RDiv(R(t - tmin), R(tmax - tmin)))
  ELSE Clip(RSub(R(1), Rat(Abs(2 * t - 45), 60)), R(0), R(1))

\* Step 4: the sum of the requested filter columns the dataset has, over
\* the number of requested filters.
FilterScore(r, special_filters, columns) ==
  LET cols == PresentCols(special_filters, columns)
  IN  Rat(SumSeq([i \in DOMAIN cols |-> r[cols[i]]]), Len(special_filters))

\* Mutant: the clip after the penalty is lost.
ApplyPenaltyUnclipped(score, activity_threshold, min_score) ==
  LET shortfall == activity_threshold - min_score
      penalty == IF shortfall < 0 THEN 0 ELSE shortfall
  IN  RSub(score, RMul(R(penalty), Rat(1, 10)))

\* Step 5: subtract 0.1 per unit of shortfall, then clip at 0.
ApplyPenalty(score, activity_threshold, min_score) ==
  LET shortfall == activity_threshold - min_score
      penalty == IF shortfall < 0 THEN 0 ELSE shortfall
  IN  ClipLower(RSub(score, RMul(R(penalty), Rat(1, 10))), R(0))

\* Mutant: the negation of the mask is lost.
ExcludeCitiesKeepsExcluded(rows, exclude_cities) ==
  SelectSeq(rows, LAMBDA r : r.city \in exclude_cities)

\* Step 6: result_df[~result_df['city'].isin(exclude_cities)]
ExcludeCities(rows, exclude_cities) ==
  SelectSeq(rows, LAMBDA r : r.city \notin exclude_cities)

\* Step 7: add 0.1 times the duration flag.
AddDuration(score, flag) == RAdd(score, RMul(R(flag), Rat(1, 10)))

\* result_df['recommendation_score'] += v on one row
AddScore(r, v) == SetCol(r, "recommendation_score", RAdd(r.recommendation_score, v))

\* Steps 1 to 5: the columns written into result_df, row by row
ScoredInPlace(df, preferences) ==
  LET selected_activities == Get(preferences, "selected_activities", <<>>)
      activity_cols == PresentCols(selected_activities, df.columns)
      use_activity == selected_activities # <<>> /\ activity_cols # <<>>
      values(r) == [i \in DOMAIN activity_cols |-> r[activity_cols[i]]]
      mean(r) == Rat(SumSeq(values(r)), Len(activity_cols))
      max_score ==
        CHOOSE m \in {mean(df.rows[i]) : i \in DOMAIN df.rows} :
          \A j \in DOMAIN df.rows : RLe(mean(df.rows[j]), m)
      budget_level == Get(preferences, "budget_level", None)
      use_budget == budget_level # None
      user_budget ==
        IF budget_level \in DOMAIN budget_mapping THEN budget_mapping[budget_level] ELSE 2
      temp_preference == Get(preferences, "avg_temp_preference", "moderate")
      use_temp == /\ temp_preference \in {"warm", "moderate", "cold"}
                  /\ "avg_temp_summer" \in df.columns
      temps == [i \in DOMAIN df.rows |-> df.rows[i].avg_temp_summer]
      tmin == SeqMin(temps)
      tmax == SeqMax(temps)
      special_filters == Get(preferences, "special_filters", <<>>)
      activity_threshold == Get(preferences, "activity_threshold", 0)
      use_penalty == activity_threshold > 0 /\ use_activity
      \* steps 1 to 5 on one row
      steps(r) ==
        LET s0 == SetCol(r, "recommendation_score", R(0))
            a == NormalizeActivity(mean(r), max_score)
            s1 == IF use_activity
                  THEN AddScore(SetCol(s0, "activity_score", a), RMul(a, Rat(2, 5)))
                  ELSE s0
            b == BudgetMatch(r.budget_numeric, user_budget)
            s2 == IF use_budget
                  THEN AddScore(SetCol(s1, "budget_match", b), RMul(b, Rat(1, 5)))
                  ELSE s1
            ts == TempScore(temp_preference, r.avg_temp_summer, tmin, tmax)
            s3 == IF use_temp
                  THEN AddScore(SetCol(s2, "temp_score", ts), RMul(ts, Rat(3, 20)))
                  ELSE s2
            s4 == IF special_filters # <<>>
                  THEN AddScore(s3, RMul(FilterScore(r, special_filters, df.columns),
                                         Rat(3, 20)))
                  ELSE s3
        IN  IF use_penalty
            THEN SetCol(s4, "recommendation_score",
                        ApplyPenalty(s4.recommendation_score, activity_threshold,
                                     SeqMin(values(r))))
            ELSE s4
      scored == [i \in DOMAIN df.rows |-> steps(df.rows[i])]
      columns ==
        df.columns \cup {"recommendation_score"}
          \cup (IF use_activity THEN {"activity_score"} ELSE {})
          \cup (IF use_budget THEN {"budget_match"} ELSE {})
          \cup (IF use_temp THEN {"temp_score"} ELSE {})
  IN  IF use_budget /\ "budget_numeric" \notin df.columns THEN Raise("KeyError")
      ELSE Ok([columns |-> columns, rows |-> scored])

\* Steps 6 and 7 on the scored rows: every row that is not excluded, with
\* its final score; an exception of steps 1 to 5 passes through
FilteredCandidates(df, in_place, preferences) ==
  LET exclude_cities == Get(preferences, "exclude_cities", {})
      duration_col == Get(preferences, "duration_col", None)
      use_duration == duration_col # None /\ duration_col \in df.columns
      \* step 7 on one row
      s7(r) ==
        IF use_duration
        THEN SetCol(r, "recommendation_score",
                    AddDuration(r.recommendation_score, r[duration_col]))
        ELSE r
      kept == IF exclude_cities # {} THEN ExcludeCities(in_place.rows, exclude_cities)
              ELSE in_place.rows
  IN  IF in_place.status # "ok" THEN in_place
      ELSE Ok([columns |-> in_place.columns, rows |-> [i \in DOMAIN kept |-> s7(kept[i])]])

\* Steps 1 to 7
ScoredCandidates(df, preferences) ==
  FilteredCandidates(df, ScoredInPlace(df, preferences), preferences)

\* Step 8, result_df.sort_values('recommendation_score', ascending=False),
\* an exception of steps 1 to 7 passing through
RankedCandidates(scored, kind) ==
  IF scored.status # "ok" THEN scored
  ELSE Ok([columns |-> scored.columns,
           rows |-> sort_values(scored.rows, "recommendation_score", kind)])

\* Step 8, .head(top_n)
TopCandidates(ranked, top_n) ==
  IF ranked.status # "ok" THEN ranked
  ELSE Ok([columns |-> ranked.columns, rows |-> head(ranked.rows, top_n)])

recommend_cities_by_preferences(df, preferences, top_n, kind) ==
  TopCandidates(RankedCandidates(ScoredCandidates(df, preferences), kind), top_n)

(***************************************************************************)
(* Recommendation orchestrator: get_personalized_recommendations.          *)
(***************************************************************************)
\* Python truthiness of a selection that is a string or None
Truthy(v) == v # None /\ v # ""

\* The preference record the orchestrator builds from the user's selections.
OrchestratorPreferences(user_selections) ==
  LET target_city == Get(user_selections, "target_city", None)
  IN  [selected_activities |-> Get(user_selections, "selected_activities", <<>>),
       budget_level |-> Get(user_selections, "budget_level", None),
       activity_threshold |-> Get(user_selections, "activity_threshold", 0),
       special_filters |-> Get(user_selections, "special_filters", <<>>),
       duration_col |-> Get(user_selections, "duration_col", None),
       exclude_cities |-> IF Truthy(target_city) THEN {target_city} ELSE {}]

RECURSIVE Flatten(_)
Flatten(ss) == IF ss = <<>> THEN <<>> ELSE Head(ss) \o Flatten(Tail(ss))

\* left.merge(right[['city', 'similarity_score']], on='city', how='left'):
\* one row per matching right row, in left order; a left row without a match
\* is kept with a missing similarity_score; the result has a fresh index.
merge(left, right) ==
  LET matches(l) == SelectSeq(right, LAMBDA r : r.city = l.city)
      joined(l) ==
        IF matches(l) = <<>> THEN << SetCol(l, "similarity_score", NaN) >>
        ELSE [k \in DOMAIN matches(l) |->
                SetCol(l, "similarity_score", matches(l)[k].similarity_score)]
      all == Flatten([i \in DOMAIN left |-> joined(left[i])])
  IN  [i \in DOMAIN all |-> SetCol(all[i], "index", i - 1)]

\* Series.fillna(0)
fillna0(x) == IF IsNaN(x) THEN R(0) ELSE x

\* Mutant: the two weights are exchanged.
HybridScoreSwapped(recommendation_score, similarity_score) ==
  RAdd(RMul(recommendation_score, Rat(2, 5)), RMul(similarity_score, Rat(3, 5)))

HybridScore(recommendation_score, similarity_score) ==
  RAdd(RMul(recommendation_score, Rat(3, 5)), RMul(similarity_score, Rat(2, 5)))

\* Lines 292-296 on one merged row
HybridRow(m) ==
  SetCol(SetCol(m, "similarity_score", fillna0(m.similarity_score)), "hybrid_score",
         HybridScore(m.recommendation_score, fillna0(m.similarity_score)))

WithHybridScore(merged) == [i \in DOMAIN merged |-> HybridRow(merged[i])]

\* Lines 284-298: the similarity scores joined onto the preference rows, the
\* hybrid score of each row, and the sort by it.
HybridRows(pref_rows, sim_rows, kind) ==
  sort_values(WithHybridScore(merge(pref_rows, sim_rows)), "hybrid_score", kind)

\* Mutant: the candidates are returned untruncated.
TruncateSkipped(pref, top_n) == pref

\* return pref_recommendations.head(top_n)
Truncate(pref, top_n) == Ok([columns |-> pref.columns, rows |-> head(pref.rows, top_n)])

\* The branches of the three methods, given the preference scorer's result
\* `pref` (for top_n rows in preferences mode, top_n * 2 in hybrid mode) and
\* the similarity engine's result `sim` for the target city.
Dispatch(method, top_n, kind, has_target, pref, sim) ==
  IF method = "preferences" THEN pref
  ELSE IF method = "similarity"
  THEN IF has_target
       THEN IF sim.status # "ok" THEN sim
            ELSE Ok([columns |-> sim.columns, rows |-> head(sim.rows, top_n)])
       ELSE Ok(EmptyDataFrame)
  ELSE IF method = "hybrid"
  THEN IF pref.status # "ok" THEN pref
       ELSE IF has_target /\ pref.rows # <<>>
       THEN IF sim.status # "ok" THEN sim
            ELSE IF ~({"city", "similarity_score"} \subseteq sim.columns)
            THEN Raise("KeyError")
            ELSE Ok([columns |-> pref.columns \cup {"similarity_score", "hybrid_score"},
                     rows |-> head(HybridRows(pref.rows, sim.rows, kind), top_n)])
       ELSE Truncate(pref, top_n)
  ELSE Ok(EmptyDataFrame)

\* The preference scorer's candidates for the selections, before .head()
PreferenceCandidates(df, user_selections, kind) ==
  RankedCandidates(ScoredCandidates(df, OrchestratorPreferences(user_selections)), kind)

\* The similarity engine's result for the selections' target city
SimilarToTarget(df, user_selections, kind) ==
  calculate_city_similarity(df, Get(user_selections, "target_city", None),
                            Some(Get(user_selections, "selected_activities", <<>>)), kind)

\* Mutant: hybrid mode asks for three times top_n candidates.
CandidateCountTripled(method, top_n) == IF method = "hybrid" THEN top_n * 3 ELSE top_n

\* The rows asked of the preference scorer: top_n, in hybrid mode top_n * 2
CandidateCount(method, top_n) == IF method = "hybrid" THEN top_n * 2 ELSE top_n

\* The branch of the method on the two engines' results
Personalized(ranked, sim, user_selections, method, top_n, kind) ==
  Dispatch(method, top_n, kind, Truthy(Get(user_selections, "target_city", None)),
           TopCandidates(ranked, CandidateCount(method, top_n)), sim)

get_personalized_recommendations(df, user_selections, method, top_n, kind) ==
  Personalized(PreferenceCandidates(df, user_selections, kind),
               SimilarToTarget(df, user_selections, kind),
               user_selections, method, top_n, kind)

(***************************************************************************)
(* Presentation of the recommendations: show_recommendations_section       *)
(* (modules/frontend/ui_results_recommendations.py).  What the section     *)
(* shows is "recommendations" (the cards), "info" (the message that there  *)
(* is nothing to recommend) or "error" (st.error with the exception that   *)
(* the try block caught).                                                  *)
(***************************************************************************)
Shown(what, exception, frame) ==
  [status |-> "ok", shown |-> what, exception |-> exception,
   columns |-> frame.columns, rows |-> frame.rows]

\* Lines 65-66: recommendations[~recommendations['city'].isin(exclude_cities)];
\* a frame without a city column raises KeyError
FilterExclusions(recommendations, exclude_cities) ==
  IF exclude_cities = {} THEN recommendations
  ELSE IF "city" \notin recommendations.columns THEN Raise("KeyError")
  ELSE Ok([columns |-> recommendations.columns,
           rows |-> SelectSeq(recommendations.rows,
                              LAMBDA r : r.city \notin exclude_cities)])

\* Lines 51-149 on the orchestrator's result: the cards read each row's city,
\* country and region
ShowRecommendations(recommendations, filtered_rows) ==
  LET exclude_cities == {filtered_rows[i].city : i \in DOMAIN filtered_rows}
      kept == IF recommendations.status # "ok" THEN recommendations
              ELSE FilterExclusions(recommendations, exclude_cities)
  IN  IF kept.status # "ok" THEN Shown("error", kept.status, EmptyDataFrame)
      ELSE IF kept.rows = <<>> THEN Shown("info", None, EmptyDataFrame)
      ELSE IF ~({"city", "country", "region"} \subseteq kept.columns)
      THEN Shown("error", "KeyError", EmptyDataFrame)
      ELSE Shown("recommendations", None, kept)

show_recommendations_section(df, user_selections, filtered_rows, method, top_n, kind) ==
  ShowRecommendations(
    get_personalized_recommendations(df, user_selections, method, top_n, kind),
    filtered_rows)

(***************************************************************************)
(* Feature preparation: prepare_features_for_clustering                    *)
(* (modules/ml_nlp/feature_engineering.py).  A missing cell of a dataset   *)
(* row is a column the row has no value for; the cells of the feature      *)
(* table are rationals, a cell still missing being NaN.                    *)
(***************************************************************************)
numeric_features ==
  <<"culture", "adventure", "nature", "beaches", "nightlife",
    "cuisine", "wellness", "urban", "seclusion",
    "latitude", "longitude",
    "avg_temp_summer", "avg_temp_winter",
    "budget_numeric", "distance_to_airport_km",
    "Alcohol-free", "Halal-friendly", "Safe", "family_friendly",
    "airport_closeness",
    "short_trip", "weekend", "long_trip", "one_week", "day_trip">>

\* Mutant: the canonical list is not restricted to the dataset's columns.
available_features_unfiltered(columns) == numeric_features

\* [col for col in numeric_features if col in df.columns]
available_features(columns) == PresentCols(numeric_features, columns)

RECURSIVE RSum(_)
RSum(s) == IF s = <<>> THEN R(0) ELSE RAdd(Head(s), RSum(Tail(s)))

\* Series.mean(): the mean of the defined cells, NaN when there is none
column_mean(rows, c) ==
  LET defined == SelectSeq(rows, LAMBDA r : c \in DOMAIN r)
  IN  Rat(SumSeq([i \in DOMAIN defined |-> defined[i][c]]), Len(defined))

\* features_df.fillna(features_df.mean()) on one row: a NaN mean fills nothing
fillna_mean(r, names, means) ==
  ("index" :> r.index)
    @@ [c \in {names[j] : j \in DOMAIN names} |->
          IF c \in DOMAIN r THEN R(r[c]) ELSE means[c]]

prepare_features_for_clustering(df) ==
  LET names == available_features(df.columns)
      cols == {names[j] : j \in DOMAIN names}
      means == [c \in cols |-> column_mean(df.rows, c)]
  IN  [status |-> "ok", columns |-> cols,
       rows |-> [i \in DOMAIN df.rows |-> fillna_mean(df.rows[i], names, means)],
       feature_names |-> names]

(***************************************************************************)
(* Standardization.  A standardized cell is [num, var], standing for       *)
(* num / sqrt(var): the cell minus its column's mean, and the column's     *)
(* population variance (a zero variance scales by 1).                      *)
(***************************************************************************)
column_var(cells, mean) ==
  RDiv(RSum([i \in DOMAIN cells |-> RMul(RSub(cells[i], mean), RSub(cells[i], mean))]),
       R(Len(cells)))

\* StandardScaler().fit_transform(features_df)
fit_transform(rows, names) ==
  LET cells(j) == [i \in DOMAIN rows |-> rows[i][names[j]]]
      mean == [j \in DOMAIN names |-> RDiv(RSum(cells(j)), R(Len(rows)))]
      var == [j \in DOMAIN names |-> column_var(cells(j), mean[j])]
  IN  [i \in DOMAIN rows |->
        [j \in DOMAIN names |->
          [num |-> RSub(rows[i][names[j]], mean[j]), var |-> var[j]]]]

\* sklearn rejects a matrix that holds NaN
HasNaN(X) == \E i \in DOMAIN X : \E j \in DOMAIN X[i] : IsNaN(X[i][j].num)

\* A float keeps a finite precision: q rounded down to a multiple of 1/SimScale
Round(q) == IF IsNaN(q) THEN NaN ELSE Rat((q.n * SimScale) \div q.d, SimScale)

\* Squared Euclidean distance of two standardized rows
Dist2(u, v) ==
  RSum([j \in DOMAIN u |->
         LET diff == RSub(u[j].num, v[j].num)
         IN  IF u[j].var = R(0) THEN Round(RMul(diff, diff))
             ELSE Round(RDiv(RMul(diff, diff), u[j].var))])

\* The data has no variance at all: every row equals the first
NoVariance(X) == \A i \in DOMAIN X : X[i] = X[1]

(***************************************************************************)
(* Dimensionality reducer: apply_pca.  The decomposition itself is         *)
(* sklearn's: its explained-variance ratios are an input `ratios` of the   *)
(* model (one value per component, min(rows, features) of them), and the   *)
(* projection of a row on component j is the term [pc |-> j, of |-> row].  *)
(***************************************************************************)
\* np.cumsum
cumsum(s) == [i \in DOMAIN s |-> RSum(SubSeq(s, 1, i))]

\* Mutant: the last position that reaches the threshold is taken.
ComponentsForLast(cumulative_variance, threshold) ==
  LET hits == {i \in DOMAIN cumulative_variance : RLe(threshold, cumulative_variance[i])}
  IN  IF hits = {} THEN 1 ELSE CHOOSE i \in hits : \A j \in hits : j <= i

\* np.argmax(cumulative_variance >= threshold) + 1: the first position that
\* reaches the threshold; argmax of an all-False array is 0, so 1 when no
\* position reaches it (a NaN never does).
ComponentsFor(cumulative_variance, threshold) ==
  LET hits == {i \in DOMAIN cumulative_variance : RLe(threshold, cumulative_variance[i])}
  IN  IF hits = {} THEN 1 ELSE CHOOSE i \in hits : \A j \in hits : i <= j

\* f'PC{i+1}'
PCName(i) == "PC" \o ToString(i)

\* DataFrame.reset_index(drop=True)
reset_index(rows) == [i \in DOMAIN rows |-> SetCol(rows[i], "index", i - 1)]

\* pd.concat([left, right], axis=1): the rows are matched on their index
\* labels; a label of one side only gives a row with the other side's cells
\* missing.
concat_axis1(left, right) ==
  LET at(rows, label) == {i \in DOMAIN rows : rows[i].index = label}
      joined(l) == IF at(right, l.index) = {} THEN l
                   ELSE l @@ right[CHOOSE i \in at(right, l.index) : TRUE]
  IN  [i \in DOMAIN left |-> joined(left[i])]
        \o SelectSeq(right, LAMBDA r : at(left, r.index) = {})

\* df[['city', 'country', 'region']]
Identifiers(rows) ==
  [i \in DOMAIN rows |->
    [c \in {"index", "city", "country", "region"} |-> rows[i][c]]]

\* pd.DataFrame(pca_features, columns=pca_columns, index=df.index)
ProjectedFrame(X, index_rows, n_components) ==
  [i \in DOMAIN X |->
    ("index" :> index_rows[i].index)
      @@ [c \in {PCName(j) : j \in 1..n_components} |->
            [pc |-> CHOOSE j \in 1..n_components : PCName(j) = c, of |-> X[i]]]]

apply_pca(df, n_components, explained_variance_threshold, ratios) ==
  LET prep == prepare_features_for_clustering(df)
      X == fit_transform(prep.rows, prep.feature_names)
      available == Min2(Len(df.rows), Len(prep.feature_names))
      chosen ==
        IF n_components = Absent
        THEN Min2(ComponentsFor(cumsum(ratios), explained_variance_threshold),
                  Len(prep.feature_names))
        ELSE n_components[1]
  IN  IF Len(df.rows) = 0 \/ Len(prep.feature_names) = 0 \/ HasNaN(X)
      THEN Raise("ValueError")
      ELSE IF chosen > available THEN Raise("ValueError")
      ELSE IF ~({"city", "country", "region"} \subseteq df.columns) THEN Raise("KeyError")
      ELSE [status |-> "ok",
            columns |-> {"city", "country", "region"} \cup {PCName(j) : j \in 1..chosen},
            rows |-> concat_axis1(reset_index(Identifiers(df.rows)),
                                  reset_index(ProjectedFrame(X, df.rows, chosen))),
            explained_variance_ratio |-> SubSeq(ratios, 1, chosen)]

(***************************************************************************)
(* Cluster engine: apply_kmeans_clustering.  sklearn's fit is a            *)
(* deterministic function of the matrix, the cluster count and the random  *)
(* state; it is modelled as one assignment step around the centres the     *)
(* random state draws among the distinct rows.  The quality score is the   *)
(* silhouette over squared distances (a root has no exact value here),     *)
(* distances and scores being multiples of 1/SimScale.                     *)
(* Clustering in PCA space is modelled in the standardized space, whose    *)
(* distances the orthogonal projection keeps or approximates.              *)
(***************************************************************************)
\* Mutant: random_state is left to numpy's global generator.
KMeansRandomStateNone == Absent

\* KMeans(..., random_state=42, ...)
KMeansRandomState == Some(42)

\* Positions of the first occurrence of each distinct row
Firsts(X) ==
  SelectSeq([i \in DOMAIN X |-> i], LAMBDA i : \A j \in 1..(i - 1) : X[j] # X[i])

\* The initial centres the random state draws
Centres(X, n_clusters, seed) ==
  LET f == Firsts(X)
  IN  [c \in 1..Min2(n_clusters, Len(f)) |-> X[f[((c - 1 + seed) % Len(f)) + 1]]]

\* The label of a row: its nearest centre, the first one of equally near
\* ones, given the row's distance d[c] to each centre c
Nearest(d) ==
  (CHOOSE c \in DOMAIN d :
     \A e \in DOMAIN d : RLt(d[c], d[e]) \/ (d[c] = d[e] /\ c <= e)) - 1

\* The labels of the rows of X around the given centres
Assign(X, centres) ==
  [i \in DOMAIN X |-> Nearest([c \in DOMAIN centres |-> Dist2(X[i], centres[c])])]

\* KMeans(n_clusters, random_state).fit_predict(X)
fit_predict(X, n_clusters, seed) == Assign(X, Centres(X, n_clusters, seed))

\* The silhouette of row i, (b - a) / max(a, b), 0 for a row alone in its
\* cluster, given the row's distance d[l] to each row l
silhouette_sample(d, labels, i) ==
  LET mean_to(S) ==
        RDiv(RSum([l \in DOMAIN d |-> IF l \in S THEN d[l] ELSE R(0)]),
             R(Cardinality(S)))
      own == {l \in DOMAIN d \ {i} : labels[l] = labels[i]}
      others == {labels[l] : l \in DOMAIN d} \ {labels[i]}
      a == mean_to(own)
      to_other == {mean_to({l \in DOMAIN d : labels[l] = c}) : c \in others}
      b == CHOOSE m \in to_other : \A o \in to_other : RLe(m, o)
      largest == IF RLt(a, b) THEN b ELSE a
  IN  IF own = {} \/ largest = R(0) THEN R(0) ELSE Round(RDiv(RSub(b, a), largest))

\* The mean silhouette of the rows of X
MeanSilhouette(X, labels) ==
  RDiv(RSum([i \in DOMAIN X |->
              silhouette_sample([l \in DOMAIN X |-> Dist2(X[i], X[l])], labels, i)]),
       R(Len(X)))

\* silhouette_score(X, labels): defined for 2 .. n_samples - 1 labels only
silhouette_score(X, labels) ==
  IF Cardinality({labels[i] : i \in DOMAIN labels}) \notin 2..(Len(X) - 1)
  THEN [status |-> "ValueError", value |-> NaN]
  ELSE [status |-> "ok", value |-> MeanSilhouette(X, labels)]

\* One fit with n_clusters and its quality score (lines 175-177 and 187-191)
FitAndScore(X, n_clusters, seed) ==
  IF HasNaN(X) \/ Len(X) < n_clusters
  THEN [status |-> "ValueError", value |-> NaN, labels |-> <<>>]
  ELSE [labels |-> fit_predict(X, n_clusters, seed)]
         @@ silhouette_score(X, fit_predict(X, n_clusters, seed))

\* Mutant: the end of the range is taken as inclusive.
k_range_inclusive(n) == 2..Min2(11, n \div 10 + 1)

\* range(2, min(11, len(df) // 10 + 1))
k_range(n) == 2..(Min2(11, n \div 10 + 1) - 1)

\* The loop over k_range from k on: a strictly greater score replaces the
\* best one; a fit that raises ends the call.
\* Mutant: an equal score replaces the best one too.
RECURSIVE SearchKLastBest(_, _, _, _)
SearchKLastBest(k, scores, best_score, best_k) ==
  IF k \notin DOMAIN scores THEN [status |-> "ok", best_k |-> best_k]
  ELSE IF scores[k].status # "ok" THEN [status |-> scores[k].status, best_k |-> best_k]
  ELSE IF RLe(best_score, scores[k].value)
  THEN SearchKLastBest(k + 1, scores, scores[k].value, k)
  ELSE SearchKLastBest(k + 1, scores, best_score, best_k)

RECURSIVE SearchK(_, _, _, _)
SearchK(k, scores, best_score, best_k) ==
  IF k \notin DOMAIN scores THEN [status |-> "ok", best_k |-> best_k]
  ELSE IF scores[k].status # "ok" THEN [status |-> scores[k].status, best_k |-> best_k]
  ELSE IF RLt(best_score, scores[k].value)
  THEN SearchK(k + 1, scores, scores[k].value, k)
  ELSE SearchK(k + 1, scores, best_score, best_k)

\* Mutant: the labels are attached as a Series with its own RangeIndex, so
\* they are matched on index labels.
AssignSeries(rows, c, values) ==
  [i \in DOMAIN rows |->
    IF rows[i].index + 1 \in DOMAIN values
    THEN SetCol(rows[i], c, values[rows[i].index + 1])
    ELSE rows[i]]

\* clustered_df[c] = values for a numpy array: by position
AssignArray(rows, c, values) == [i \in DOMAIN rows |-> SetCol(rows[i], c, values[i])]

apply_kmeans_clustering(df, n_clusters, use_pca, pca_components, seed) ==
  LET prep == prepare_features_for_clustering(df)
      X == fit_transform(prep.rows, prep.feature_names)
      components ==
        IF pca_components = Absent THEN Min2(10, Len(prep.feature_names))
        ELSE pca_components[1]
      \* the fits of the search loop, one per candidate k
      scores ==
        IF n_clusters = Absent
        THEN [k \in k_range(Len(df.rows)) |-> FitAndScore(X, k, seed)]
        ELSE <<>>
      search ==
        IF n_clusters = Absent THEN SearchK(2, scores, R(-1), 2)
        ELSE [status |-> "ok", best_k |-> n_clusters[1]]
      final == FitAndScore(X, search.best_k, seed)
  IN  IF Len(df.rows) = 0 \/ Len(prep.feature_names) = 0 THEN Raise("ValueError")
      ELSE IF use_pca /\ (HasNaN(X)
                           \/ components > Min2(Len(df.rows), Len(prep.feature_names)))
      THEN Raise("ValueError")
      ELSE IF search.status # "ok" THEN Raise(search.status)
      ELSE IF final.status # "ok" THEN Raise(final.status)
      ELSE [status |-> "ok", columns |-> df.columns \cup {"cluster"},
            rows |-> AssignArray(df.rows, "cluster", final.labels),
            n_clusters |-> search.best_k,
            silhouette_avg |-> final.value,
            evaluated |-> [k \in DOMAIN scores |-> scores[k].value]]

(***************************************************************************)
(* The ML analysis tab: show_ml_analysis_tab                               *)
(* (modules/frontend/ui_results_ml.py).  st.slider raises                  *)
(* StreamlitAPIException unless min_value <= value <= max_value; the       *)
(* slider is built outside the tab's try blocks.                           *)
(***************************************************************************)
\* st.slider("Number of Clusters", min_value=2,
\*           max_value=min(10, len(filtered_df) // 3), value=3)
Slider(n) == [min_value |-> 2, max_value |-> Min2(10, n \div 3), value |-> 3]

SliderValid(slider) ==
  slider.min_value <= slider.value /\ slider.value <= slider.max_value

\* The positions the user leaves the slider at: its ends or its default
SliderPositions(slider) ==
  IF SliderValid(slider) THEN {slider.min_value, slider.value, slider.max_value}
  ELSE {slider.value}

NoSlider == [min_value |-> 0, max_value |-> 0, value |-> 0]

\* What the tab has done: the message or the analysis it shows, the status
\* of its PCA and cluster calls ("none" for a call not made), the slider it
\* built and the cluster call's arguments and result
TabOutcome(status, shown, pca, slider, n_clusters, clustered) ==
  [status |-> status, shown |-> shown, pca |-> pca, slider |-> slider,
   n_clusters |-> n_clusters, cluster |-> clustered.status,
   columns |-> clustered.columns, rows |-> clustered.rows]

\* Lines 100-118: the cluster call the tab makes, if it gets that far
ClusterStage(filtered_df, show_clustering, n_clusters, use_pca_for_clustering, seed) ==
  IF Len(filtered_df.rows) < 3 \/ ~show_clustering
       \/ ~SliderValid(Slider(Len(filtered_df.rows)))
  THEN Raise("none")
  ELSE apply_kmeans_clustering(
         filtered_df, Some(n_clusters), use_pca_for_clustering,
         IF use_pca_for_clustering THEN Some(5) ELSE Absent, seed)

\* The tab around its cluster call
ShowMlAnalysis(filtered_df, show_pca, show_clustering, n_clusters, ratios, clustered) ==
  LET slider == Slider(Len(filtered_df.rows))
      pca == IF show_pca THEN apply_pca(filtered_df, Absent, Rat(19, 20), ratios).status
             ELSE "none"
  IN  IF Len(filtered_df.rows) < 3
      THEN TabOutcome("ok", "info", "none", NoSlider, Absent, clustered)
      ELSE IF ~show_clustering
      THEN TabOutcome("ok", "analysis", pca, NoSlider, Absent, clustered)
      ELSE IF ~SliderValid(slider)
      THEN TabOutcome("StreamlitAPIException", "analysis", pca, slider, Absent,
                      clustered)
      ELSE TabOutcome("ok", "analysis", pca, slider, Some(n_clusters), clustered)

show_ml_analysis_tab(filtered_df, show_pca, show_clustering, n_clusters, use_pca_for_clustering, ratios, seed) ==
  ShowMlAnalysis(filtered_df, show_pca, show_clustering, n_clusters, ratios,
                 ClusterStage(filtered_df, show_clustering, n_clusters,
                              use_pca_for_clustering, seed))

(***************************************************************************)
(* The wizard: the pages of modules/frontend/ui_pages_input.py and         *)
(* ui_pages_results.py, routed by streamlit_app.py on the page number of   *)
(* the session, with the navigation helpers of ui_utils.py.                *)
(***************************************************************************)
\* st.session_state.selections = {}
EmptySelections == [x \in {} |-> x]

next_page(session) == [session EXCEPT !.page = @ + 1]

prev_page(session) == [session EXCEPT !.page = @ - 1]

\* Mutant: reset_app leaves the cached trending cities in the session.
reset_app_keeps_trending(session) ==
  [page |-> 1, selections |-> EmptySelections, random_cities |-> session.random_cities]

reset_app(session) ==
  [page |-> 1, selections |-> EmptySelections, random_cities |-> Absent]

\* The three assignments of a destination choice
SetTarget(selections, city, region, country) ==
  ("target_city" :> city) @@ ("target_region" :> region)
    @@ ("target_country" :> country) @@ selections

\* Mutant: "View This City" sets the city and leaves region and country.
ViewThisCityKeepsTarget(selections, selected_rec) ==
  ("target_city" :> selected_rec) @@ selections

\* ui_results_recommendations.py lines 143-145
ViewThisCity(selections, selected_rec) == SetTarget(selections, selected_rec, None, None)

Remove(s, i) == SubSeq(s, 1, i - 1) \o SubSeq(s, i + 1, Len(s))

\* DataFrame.sample(k): k rows of the frame, in any order
RECURSIVE Samples(_, _)
Samples(rows, k) ==
  IF k = 0 THEN {<<>>}
  ELSE UNION { { <<rows[i]>> \o s : s \in Samples(Remove(rows, i), k - 1) }
               : i \in DOMAIN rows }

Cities(rows) == {rows[i].city : i \in DOMAIN rows}

\* ui_pages_input.py lines 61-72: the trend_df values the two samples allow
TrendingCities(df) ==
  LET priority_cities == {"Istanbul", "Dubai"}
      trend_df == SelectSeq(df.rows, LAMBDA r : r.city \in priority_cities)
      luxury_pool == SelectSeq(df.rows, LAMBDA r : r.budget_level = "Luxury"
                                                   /\ r.city \notin priority_cities)
      needed == 4 - Len(trend_df)
      with_luxury ==
        IF needed > 0 /\ luxury_pool # <<>>
        THEN {trend_df \o s : s \in Samples(luxury_pool, Min2(Len(luxury_pool), needed))}
        ELSE {trend_df}
      filled(t) ==
        LET remaining == SelectSeq(df.rows, LAMBDA r : r.city \notin Cities(t))
        IN  IF Len(t) < 4 /\ remaining # <<>>
            THEN {t \o s : s \in Samples(remaining, Min2(Len(remaining), 4 - Len(t)))}
            ELSE {t}
  IN  UNION { filled(t) : t \in with_luxury }

Choice(button, city, region, country) ==
  [button |-> button, city |-> city, region |-> region, country |-> country]

\* The buttons of the destination page that can be pressed, each with the
\* target it assigns: the three tabs (lines 23-55) and the "Go" buttons of
\* the trending cities (lines 90-99)
DestinationChoices(df, random_cities) ==
  {Choice("Continue with City", df.rows[i].city, None, None) : i \in DOMAIN df.rows}
    \cup {Choice("Explore Region", None, df.rows[i].region, None) : i \in DOMAIN df.rows}
    \cup {Choice("Explore Country", None, None, df.rows[i].country) : i \in DOMAIN df.rows}
    \cup (IF random_cities = Absent THEN {}
          ELSE {IF random_cities[1][i].country = "Turkey"
                THEN Choice("Go", None, None, "Turkey")
                ELSE Choice("Go", random_cities[1][i].city, None, None)
                : i \in DOMAIN random_cities[1]})

\* The budget page's three buttons
BudgetLevels == {"Budget", "Mid-range", "Luxury"}

\* Two of the entries of data_manager.TRIP_DURATION_OPTIONS
TRIP_DURATION_OPTIONS == ("Weekend" :> "weekend") @@ ("One Week" :> "one_week")

\* The values the user leaves the widgets of the activities page at
ActivityWidgets ==
  { [selected_activities |-> a, activity_threshold |-> t, special_filters |-> f] :
    a \in {<<>>, <<"culture">>}, t \in {0, 10}, f \in {<<>>, <<"family_friendly">>} }

\* The values of the widgets when the page is drawn anew (lines 163-176)
ActivityDefaults(selections) ==
  [selected_activities |-> Get(selections, "selected_activities", <<"culture">>),
   activity_threshold |-> 0,
   special_filters |-> Get(selections, "special_filters", <<>>)]

\* Lines 163-176: every run of the activities page stores the widgets' values
StoreActivities(selections, widgets) ==
  ("selected_activities" :> widgets.selected_activities)
    @@ ("activity_threshold" :> widgets.activity_threshold)
    @@ ("special_filters" :> widgets.special_filters) @@ selections

\* ui_pages_results.py lines 34-67: the rows the results page displays
FilterResults(df, sels) ==
  LET target_city == Get(sels, "target_city", None)
      target_region == Get(sels, "target_region", None)
      target_country == Get(sels, "target_country", None)
      budget_level == Get(sels, "budget_level", None)
      dur_col == Get(sels, "duration_col", None)
      sel_acts == Get(sels, "selected_activities", <<>>)
      min_score == Get(sels, "activity_threshold", 0)
      special == Get(sels, "special_filters", <<>>)
      keep(r) ==
        IF Truthy(target_city) THEN r.city = target_city
        ELSE /\ Truthy(target_region) => r.region = target_region
             /\ Truthy(target_country) => r.country = target_country
             /\ Truthy(budget_level) => r.budget_level = budget_level
             /\ (Truthy(dur_col) /\ dur_col \in df.columns) => r[dur_col] = 1
             /\ (sel_acts # <<>> /\ min_score > 0) =>
                  SumSeq([i \in DOMAIN sel_acts |-> r[sel_acts[i]]])
                    >= min_score * Len(sel_acts)
             /\ \A i \in DOMAIN special :
                  special[i] \in df.columns => r[special[i]] = 1
  IN  SelectSeq(df.rows, keep)

\* ui_pages_results.py lines 148-166: the ML analysis tab is run for more
\* than one displayed row, and its slider raises out of the page's script
MlTabRaises(n, show_clustering) ==
  n > 1 /\ n >= 3 /\ show_clustering /\ ~SliderValid(Slider(n))

(***************************************************************************)
(* The callers' inputs.                                                    *)
(***************************************************************************)
\* A dict holding key k unless the optional value o is absent
Entry(k, o) == IF o = Absent THEN [x \in {} |-> x] ELSE (k :> o[1])

ActivityChoices == {<<"culture">>, <<"culture", "nature">>}

PreferenceRecords ==
  { Entry("selected_activities", a) @@ Entry("budget_level", b)
      @@ Entry("activity_threshold", t) @@ Entry("special_filters", f)
      @@ Entry("avg_temp_preference", w) @@ Entry("exclude_cities", x)
      @@ Entry("duration_col", d) :
    a \in {Absent} \cup {Some(c) : c \in ActivityChoices},
    b \in {Absent, Some("Luxury")},
    t \in {Absent, Some(5)},
    f \in {Absent, Some(<<"family_friendly">>)},
    w \in {Absent, Some("warm"), Some("cold")},
    x \in {Absent, Some({"Paris", "Atlantis"})},
    d \in {Absent, Some("weekend")} }

\* The selections the wizard collects
WizardSelections ==
  { Entry("selected_activities", a) @@ Entry("budget_level", b)
      @@ Entry("activity_threshold", t) @@ Entry("special_filters", f)
      @@ Entry("duration_col", d) @@ Entry("target_city", c) :
    a \in {Absent, Some(<<"culture">>)},
    b \in {Absent, Some("Luxury")},
    t \in {Absent, Some(5)},
    f \in {Absent},
    d \in {Absent, Some("weekend")},
    c \in {Absent, Some("Paris"), Some("Atlantis")} }

\* Selections whose target city has no namesake in the dataset
RomeSelections ==
  { Entry("selected_activities", a) @@ ("target_city" :> "Rome") :
    a \in {Absent, Some(<<"culture">>)} }

\* Selections that also carry a temperature preference and excluded cities
FullSelections ==
  { ("avg_temp_preference" :> "cold") @@ ("exclude_cities" :> {"Oslo"})
      @@ Entry("target_city", c) :
    c \in {Absent, Some("Rome")} }

UserSelections == WizardSelections \cup RomeSelections \cup FullSelections

Methods == {"preferences", "similarity", "hybrid", "cluster"}

ReferenceCities == {"Paris", "Rome", "Oslo", "Atlantis"}

\* The methods of the section's selectbox and two positions of its slider
SectionMethods == {"hybrid", "preferences", "similarity"}

RecommendationCounts == {3, 5}

\* The displayed result set: no row, the first row or every row of the dataset
FilteredRows(frame) == { head(frame.rows, n) : n \in {0, 1, Len(frame.rows)} }

\* The loaded dataset of the wizard: every column of the engine, the region
\* and the budget tier
WizardColumns == AllColumns \cup {"region", "budget_level"}

Place(rec, region, budget_level) ==
  [region |-> region, budget_level |-> budget_level] @@ rec

WizardCities ==
  << Place(City("Istanbul", "Turkey", 10, 4, 3, 12,  3, 1, 1), "Europe", "Luxury"),
     Place(City("Dubai",    "UAE",     6, 4, 1, 12,  5, 1, 1), "Asia",   "Luxury"),
     Place(City("Ankara",   "Turkey",  6, 4, 1, 10, -5, 0, 1), "Asia",   "Mid-range"),
     Place(City("Rome",     "Italy",  10, 4, 3, 12,  3, 1, 0), "Europe", "Luxury"),
     Place(City("Oslo",     "Norway",  2, 6, 1,  8, -5, 1, 1), "Europe", "Budget") >>

\* The whole dataset, and one without the two priority cities
WizardFrames ==
  { MakeFrame(WizardCities, WizardColumns),
    MakeFrame(SubSeq(WizardCities, 3, Len(WizardCities)), WizardColumns) }

\* Datasets for the hybrid mode: Milan equals the target Rome in every
\* feature, Vienna and Lisbon have the more moderate summers
HybridPool ==
  { City("Rome",   "Italy",    10, 4, 3, 12,   3, 1, 1),
    City("Milan",  "Italy",    10, 4, 3, 12,   3, 1, 1),
    City("Vienna", "Austria",   6, 4, 1, 22, -20, 1, 1),
    City("Lisbon", "Portugal",  6, 4, 1, 25, -25, 1, 1) }

HybridFrames ==
  { MakeFrame(s, AllColumns) :
      s \in { q \in [1..Cardinality(HybridPool) -> HybridPool] :
                \A i, j \in DOMAIN q : i # j => q[i] # q[j] } }

\* Datasets for the feature engineering: a region, two activity scores and
\* the summer temperature; some lack a canonical column, some carry the
\* non-contiguous index of a filtered frame, some have missing culture cells
\* (in the first row, or in every row).
Region ==
  ("France" :> "Europe") @@ ("USA" :> "America") @@ ("Italy" :> "Europe")
    @@ ("Norway" :> "Europe")

FeatureColumns == {"city", "country", "region", "culture", "nature", "avg_temp_summer"}

FeatureColumnSets == { FeatureColumns, FeatureColumns \ {"nature"} }

FrameVariants ==
  { [filtered |-> FALSE, missing |-> "none"], [filtered |-> TRUE, missing |-> "none"],
    [filtered |-> FALSE, missing |-> "first"], [filtered |-> TRUE, missing |-> "all"] }

MakeFeatureFrame(recs, columns, variant) ==
  LET missing(i) ==
        IF variant.missing = "all" \/ (variant.missing = "first" /\ i = 1)
        THEN {"culture"} ELSE {}
  IN  [columns |-> columns,
       rows |-> [i \in 1..Len(recs) |->
                  ("index" :> (IF variant.filtered THEN 2 * i + 1 ELSE i - 1))
                    @@ [c \in columns \ missing(i) |->
                          IF c = "region" THEN Region[recs[i].country] ELSE recs[i][c]]]]

FeatureFrames ==
  { MakeFeatureFrame(s, cs, v) : s \in RecordSeqs, cs \in FeatureColumnSets,
                                 v \in FrameVariants }

\* The explained-variance ratios a full decomposition can report: one value
\* per component, descending and summing to 1, zero beyond the rank (at most
\* n_samples - 1); every ratio is NaN (0/0) when the data has no variance.
RatioPool ==
  { <<R(1)>>, <<R(1), R(0)>>, <<Rat(3, 4), Rat(1, 4)>>,
    <<R(1), R(0), R(0)>>, <<Rat(3, 4), Rat(1, 4), R(0)>>,
    <<Rat(3, 5), Rat(37, 100), Rat(3, 100)>> }

explained_variance_ratios(n_samples, n_features, no_variance) ==
  LET n == Min2(n_samples, n_features)
  IN  IF no_variance THEN { [j \in 1..n |-> NaN] }
      ELSE { s \in RatioPool :
               /\ Len(s) = n
               /\ \A j \in DOMAIN s : j > n_samples - 1 => s[j] = R(0) }

\* Datasets large enough for the search of the cluster count: n cities in
\* `groups` groups of equal features, city i in group i mod groups
SearchSizes == {9, 10, 19, 20, 29, 30}

SearchGroups == {1, 2, 3}

GroupFeatures ==
  << [culture |-> 10, nature |-> 0, avg_temp_summer |-> 30],
     [culture |-> 0, nature |-> 10, avg_temp_summer |-> 10],
     [culture |-> 4, nature |-> 4, avg_temp_summer |-> 22] >>

MakeSearchFrame(n, groups) ==
  [columns |-> FeatureColumns,
   rows |-> [i \in 1..n |->
              [index |-> i - 1, city |-> "City" \o ToString(i), country |-> "France",
               region |-> "Europe"] @@ GroupFeatures[(i % groups) + 1]]]

SearchFrames == { MakeSearchFrame(n, g) : n \in SearchSizes, g \in SearchGroups }

\* The arguments of reduce_dimensions: the component count, or none and a threshold
ComponentChoices ==
  { [n_components |-> Absent, threshold |-> Rat(19, 20)],
    [n_components |-> Absent, threshold |-> Rat(1, 2)],
    [n_components |-> Some(2), threshold |-> Rat(19, 20)],
    [n_components |-> Some(4), threshold |-> Rat(19, 20)] }

\* The arguments of cluster
ClusterCounts == {Absent, Some(2), Some(3)}

PcaChoices ==
  { [use_pca |-> FALSE, pca_components |-> Absent],
    [use_pca |-> TRUE, pca_components |-> Absent],
    [use_pca |-> TRUE, pca_components |-> Some(1)] }

(***************************************************************************)
(* The state machine: a caller holds a dataset and makes one call at a     *)
(* time; each call is a self-contained computation.                        *)
(***************************************************************************)
\* np_random is the state of numpy's global random generator; last is the
\* cluster call, with its result, that the caller has just repeated.
VARIABLES df, call, result, np_random, last

\* session_state is Streamlit's st.session_state (the wizard's page, the
\* selections and the cached trending cities), rerun tells that st.rerun()
\* has asked for a script run that is still due, and click is the button
\* the latest script run has handled.
VARIABLES session_state, rerun, click

wizard == <<session_state, rerun, click>>

core == <<df, call, result, np_random, last>>

vars == <<df, call, result, np_random, last, session_state, rerun, click>>

NoCall == [op |-> "none"]

NoResult == [status |-> "none", columns |-> {}, rows |-> <<>>]

NoLast == [call |-> NoCall, result |-> NoResult]

\* The frame that holds the columns a call has set on its working frame;
\* a call that raised, or returned before setting any, has set none.
Written(frame, in_place) ==
  IF in_place.status = "ok" /\ in_place.columns # {}
  THEN [columns |-> in_place.columns, rows |-> in_place.rows]
  ELSE frame

\* Mutant: result_df = df, so the working frame is the caller's frame.
CallerFrameAliased(frame, written) == written

\* result_df = df.copy(): the working frame is a copy, and the caller's frame
\* after the call is what it was, whatever was written into the copy.
CallerFrame(frame, written) == frame

\* The frame written by the engines the orchestrator calls for the method
WrittenByRecommend(frame, user_selections, method) ==
  LET target_city == Get(user_selections, "target_city", None)
      selected == Some(Get(user_selections, "selected_activities", <<>>))
      scored == ScoredInPlace(frame, OrchestratorPreferences(user_selections))
      by_scorer == Written(frame, scored)
  IN  IF method = "preferences" THEN by_scorer
      ELSE IF method = "similarity"
      THEN IF Truthy(target_city)
           THEN Written(frame, SimilarityInPlace(frame, target_city, selected))
           ELSE frame
      ELSE IF method = "hybrid"
      THEN IF scored.status = "ok" /\ Truthy(target_city)
           THEN Written(by_scorer, SimilarityInPlace(by_scorer, target_city, selected))
           ELSE by_scorer
      ELSE frame

\* streamlit_app.py lines 22-25, before the first script run
InitialSession == [page |-> 1, selections |-> EmptySelections, random_cities |-> Absent]

NoClick == [page |-> 0, button |-> "none"]

FreshSession ==
  /\ session_state = InitialSession
  /\ rerun = TRUE
  /\ click = NoClick

Init ==
  /\ df \in DataFrames
  /\ call = NoCall
  /\ result = NoResult
  /\ np_random = 0
  /\ last = NoLast
  /\ FreshSession

\* A caller of every operation holds a dataset with every column
InitCore == Init /\ df.columns = AllColumns

\* The hybrid mode works on a dataset of HybridFrames
InitHybrid ==
  /\ df \in HybridFrames
  /\ call = NoCall
  /\ result = NoResult
  /\ np_random = 0
  /\ last = NoLast
  /\ FreshSession

\* The wizard works on the loaded dataset
InitWizard ==
  /\ df \in WizardFrames
  /\ call = NoCall
  /\ result = NoResult
  /\ np_random = 0
  /\ last = NoLast
  /\ FreshSession

\* The ML analysis tab works on a displayed result set of any size
InitTab ==
  /\ df \in FeatureFrames \cup SearchFrames
  /\ call = NoCall
  /\ result = NoResult
  /\ np_random = 0
  /\ last = NoLast
  /\ FreshSession

\* The search of the cluster count works on a dataset of SearchFrames
InitSearch ==
  /\ df \in SearchFrames
  /\ call = NoCall
  /\ result = NoResult
  /\ np_random = 0
  /\ last = NoLast
  /\ FreshSession

\* The ML analysis works on a dataset of FeatureFrames
InitFeatures ==
  /\ df \in FeatureFrames
  /\ call = NoCall
  /\ result = NoResult
  /\ np_random = 0
  /\ last = NoLast
  /\ FreshSession

ScoreByPreferences ==
  /\ call = NoCall
  /\ \E preferences \in PreferenceRecords :
       \E in_place \in {ScoredInPlace(df, preferences)} :
         \E scored \in {FilteredCandidates(df, in_place, preferences)}, kind \in SortKinds :
           \E ranked \in {RankedCandidates(scored, kind)} :
             \E top_n \in 1..MaxTopN :
               /\ call' = [op |-> "score_by_preferences", preferences |-> preferences,
                           top_n |-> top_n]
               /\ result' = TopCandidates(ranked, top_n)
               /\ df' = CallerFrame(df, Written(df, in_place))
  /\ UNCHANGED <<np_random, last>>
  /\ UNCHANGED wizard

SimilarCities ==
  /\ call = NoCall
  /\ \E reference_city \in ReferenceCities, activity_cols \in {Absent, Some(<<>>), Some(<<"culture">>)},
        kind \in SortKinds :
       /\ call' = [op |-> "similar_cities", reference_city |-> reference_city,
                   activity_cols |-> activity_cols]
       /\ result' = calculate_city_similarity(df, reference_city, activity_cols, kind)
       /\ df' = CallerFrame(df, Written(df, SimilarityInPlace(df, reference_city,
                                                             activity_cols)))
  /\ UNCHANGED <<np_random, last>>
  /\ UNCHANGED wizard

Recommend ==
  /\ call = NoCall
  /\ \E user_selections \in UserSelections, kind \in SortKinds :
       \E ranked \in {PreferenceCandidates(df, user_selections, kind)},
          sim \in {SimilarToTarget(df, user_selections, kind)} :
         \E method \in Methods, top_n \in 1..MaxTopN :
           /\ call' = [op |-> "recommend", user_selections |-> user_selections,
                       method |-> method, top_n |-> top_n]
           /\ result' = Personalized(ranked, sim, user_selections, method, top_n, kind)
           /\ df' = CallerFrame(df, WrittenByRecommend(df, user_selections, method))
  /\ UNCHANGED <<np_random, last>>
  /\ UNCHANGED wizard

\* The results page shows the recommendation section under the displayed
\* result set
ShowRecommendationsSection ==
  /\ call = NoCall
  /\ \E user_selections \in UserSelections, kind \in SortKinds :
       \E ranked \in {PreferenceCandidates(df, user_selections, kind)},
          sim \in {SimilarToTarget(df, user_selections, kind)} :
         \E method \in SectionMethods, top_n \in RecommendationCounts,
            filtered_rows \in FilteredRows(df) :
           /\ call' = [op |-> "show_recommendations", user_selections |-> user_selections,
                       method |-> method, top_n |-> top_n,
                       filtered_rows |-> filtered_rows]
           /\ result' = ShowRecommendations(
                          Personalized(ranked, sim, user_selections, method, top_n, kind),
                          filtered_rows)
           /\ df' = CallerFrame(df, WrittenByRecommend(df, user_selections, method))
  /\ UNCHANGED <<np_random, last>>
  /\ UNCHANGED wizard

\* The results page shows the ML analysis tab for the displayed result set
ShowMlAnalysisTab ==
  /\ call = NoCall
  /\ \E show_clustering \in BOOLEAN, use_pca \in BOOLEAN,
        n_clusters \in SliderPositions(Slider(Len(df.rows))) :
       \E clustered \in {ClusterStage(df, show_clustering, n_clusters, use_pca,
                                      IF KMeansRandomState = Absent THEN np_random
                                      ELSE KMeansRandomState[1])} :
         \E show_pca \in BOOLEAN,
            ratios \in explained_variance_ratios(
                         Len(df.rows), Len(available_features(df.columns)),
                         LET prep == prepare_features_for_clustering(df)
                         IN  NoVariance(fit_transform(prep.rows, prep.feature_names))) :
           /\ call' = [op |-> "show_ml_analysis_tab", show_pca |-> show_pca,
                       show_clustering |-> show_clustering, use_pca |-> use_pca,
                       n_clusters |-> n_clusters, ratios |-> ratios]
           /\ result' = ShowMlAnalysis(df, show_pca, show_clustering, n_clusters,
                                       ratios, clustered)
           /\ df' = CallerFrame(df, Written(df, clustered))
  /\ np_random' = IF KMeansRandomState = Absent THEN (np_random + 1) % 2 ELSE np_random
  /\ UNCHANGED last
  /\ UNCHANGED wizard

PrepareFeatures ==
  /\ call = NoCall
  /\ call' = [op |-> "prepare_features"]
  /\ result' = prepare_features_for_clustering(df)
  /\ UNCHANGED <<df, np_random, last>>
  /\ UNCHANGED wizard

ReduceDimensions ==
  /\ call = NoCall
  /\ \E choice \in ComponentChoices :
       \E ratios \in explained_variance_ratios(
                       Len(df.rows), Len(available_features(df.columns)),
                       LET prep == prepare_features_for_clustering(df)
                       IN  NoVariance(fit_transform(prep.rows, prep.feature_names))) :
         /\ call' = [op |-> "reduce_dimensions", n_components |-> choice.n_components,
                     threshold |-> choice.threshold, ratios |-> ratios]
         /\ result' = apply_pca(df, choice.n_components, choice.threshold, ratios)
  /\ UNCHANGED <<df, np_random, last>>
  /\ UNCHANGED wizard

\* A fit seeded by random_state draws from a generator of its own; without a
\* random_state it draws from, and advances, numpy's global generator.
ClusterCall(c) ==
  /\ result' = apply_kmeans_clustering(
                 df, c.n_clusters, c.use_pca, c.pca_components,
                 IF KMeansRandomState = Absent THEN np_random ELSE KMeansRandomState[1])
  /\ np_random' = IF KMeansRandomState = Absent THEN (np_random + 1) % 2 ELSE np_random
  /\ df' = CallerFrame(df, Written(df, result'))

Cluster ==
  /\ call = NoCall
  /\ \E n_clusters \in ClusterCounts, pca \in PcaChoices :
       /\ call' = [op |-> "cluster", n_clusters |-> n_clusters, use_pca |-> pca.use_pca,
                   pca_components |-> pca.pca_components]
       /\ ClusterCall(call')
  /\ UNCHANGED last
  /\ UNCHANGED wizard

\* The page is rerun: the caller repeats its cluster call on the same dataset
\* with the same parameters, the earlier result still at hand.
RepeatCluster ==
  /\ call.op = "cluster"
  /\ last' = [call |-> call, result |-> result]
  /\ ClusterCall(call)
  /\ UNCHANGED call
  /\ UNCHANGED wizard

\* The caller takes the result; the next call starts afresh.
Return ==
  /\ call # NoCall
  /\ call' = NoCall
  /\ result' = NoResult
  /\ last' = NoLast
  /\ UNCHANGED <<df, np_random>>
  /\ UNCHANGED wizard

(***************************************************************************)
(* The wizard's script runs.  Each action is one run of main(): the page   *)
(* of the session is drawn and the button pressed on it, if any, handled.  *)
(* A button can be pressed only on a page that has been drawn, that is     *)
(* when no rerun is due.                                                   *)
(***************************************************************************)
Run(page, button, session, reruns) ==
  /\ session_state' = session
  /\ rerun' = reruns
  /\ click' = [page |-> page, button |-> button]
  /\ UNCHANGED core

\* streamlit_app.py lines 28-46
Routed(page) == df.rows # <<>> /\ session_state.page = page

ShowDestinationPage ==
  /\ Routed(1)
  /\ \/ \E trend_df \in TrendingCities(df) :
          Run(1, "none",
              [session_state EXCEPT
                 !.random_cities = IF @ = Absent THEN Some(trend_df) ELSE @],
              FALSE)
     \/ /\ ~rerun
        /\ \E choice \in DestinationChoices(df, session_state.random_cities) :
             Run(1, choice.button,
                 next_page([session_state EXCEPT
                              !.selections = SetTarget(@, choice.city, choice.region,
                                                       choice.country)]),
                 TRUE)

ShowBudgetPage ==
  /\ Routed(2)
  /\ \/ Run(2, "none", session_state, FALSE)
     \/ /\ ~rerun
        /\ \E budget_level \in BudgetLevels :
             Run(2, budget_level,
                 [session_state EXCEPT
                    !.selections = ("budget_level" :> budget_level) @@ @],
                 FALSE)
     \/ ~rerun /\ Run(2, "Back", prev_page(session_state), TRUE)
     \/ ~rerun /\ Run(2, "Next Step", next_page(session_state), TRUE)

ShowDurationPage ==
  /\ Routed(3)
  /\ \/ Run(3, "none", session_state, FALSE)
     \/ /\ ~rerun
        /\ \E option \in DOMAIN TRIP_DURATION_OPTIONS :
             Run(3, option,
                 [session_state EXCEPT
                    !.selections = ("duration_label" :> option)
                                     @@ ("duration_col" :> TRIP_DURATION_OPTIONS[option])
                                     @@ @],
                 FALSE)
     \/ ~rerun /\ Run(3, "Back", prev_page(session_state), TRUE)
     \/ ~rerun /\ Run(3, "Next Step", next_page(session_state), TRUE)

ShowActivitiesPage ==
  /\ Routed(4)
  /\ \/ /\ rerun
        /\ Run(4, "none",
               [session_state EXCEPT
                  !.selections = StoreActivities(@, ActivityDefaults(@))],
               FALSE)
     \/ /\ ~rerun
        /\ \E widgets \in ActivityWidgets :
             Run(4, "none",
                 [session_state EXCEPT !.selections = StoreActivities(@, widgets)],
                 FALSE)
     \/ ~rerun /\ Run(4, "Back", prev_page(session_state), TRUE)
     \/ ~rerun /\ Run(4, "Show Results", next_page(session_state), TRUE)

ShowResultsPage ==
  /\ Routed(5)
  /\ \E filtered_rows \in {FilterResults(df, session_state.selections)} :
       \/ Run(5, "none", session_state, FALSE)
       \/ /\ ~rerun /\ filtered_rows = <<>>
          /\ Run(5, "Change Criteria", prev_page(session_state), TRUE)
       \/ /\ ~rerun /\ filtered_rows = <<>>
          /\ Run(5, "Start Over", reset_app(session_state), TRUE)
       \/ /\ ~rerun /\ filtered_rows # <<>>
          /\ \E method \in SectionMethods, top_n \in RecommendationCounts,
                kind \in SortKinds :
               \E section \in {show_recommendations_section(
                                  df, session_state.selections, filtered_rows,
                                  method, top_n, kind)} :
                 /\ section.shown = "recommendations"
                 /\ \E i \in DOMAIN section.rows :
                      Run(5, "View This City",
                          [session_state EXCEPT
                             !.selections = ViewThisCity(@, section.rows[i].city)],
                          TRUE)
       \/ /\ ~rerun /\ filtered_rows # <<>>
          /\ \E show_clustering \in BOOLEAN :
               /\ ~MlTabRaises(Len(filtered_rows), show_clustering)
               /\ Run(5, "Plan New Trip", reset_app(session_state), TRUE)

Next ==
  \/ ScoreByPreferences \/ SimilarCities \/ Recommend
  \/ PrepareFeatures \/ ReduceDimensions \/ Cluster \/ RepeatCluster
  \/ ShowRecommendationsSection \/ ShowMlAnalysisTab
  \/ Return

Spec == Init /\ [][Next]_vars

\* A caller of the preference scorer alone
NextScorer == ScoreByPreferences \/ Return

SpecScorer == Init /\ [][NextScorer]_vars

\* A caller of the similarity engine alone
NextSimilarity == SimilarCities \/ Return

SpecSimilarity == Init /\ [][NextSimilarity]_vars

\* A caller of the orchestrator and of the similarity engine
NextOrchestrator == SimilarCities \/ Recommend \/ Return

SpecOrchestrator == Init /\ [][NextOrchestrator]_vars

\* A caller of every operation of the engine
NextCore ==
  \/ ScoreByPreferences \/ SimilarCities \/ Recommend
  \/ PrepareFeatures \/ ReduceDimensions \/ Cluster \/ RepeatCluster
  \/ Return

SpecCore == InitCore /\ [][NextCore]_vars

\* A caller of the orchestrator on the datasets for the hybrid mode
SpecHybrid == InitHybrid /\ [][NextOrchestrator]_vars

\* The recommendation section of the results page
NextPresentation == ShowRecommendationsSection \/ Return

SpecPresentation == InitCore /\ [][NextPresentation]_vars

\* The wizard
NextWizard ==
  \/ ShowDestinationPage \/ ShowBudgetPage \/ ShowDurationPage
  \/ ShowActivitiesPage \/ ShowResultsPage

SpecWizard == InitWizard /\ [][NextWizard]_vars

\* The ML analysis tab of the results page
NextTab == ShowMlAnalysisTab \/ Return

SpecTab == InitTab /\ [][NextTab]_vars

\* A caller of the cluster engine alone
NextSearch == Cluster \/ Return

SpecSearch == InitSearch /\ [][NextSearch]_vars

\* A caller of the feature engineering alone
NextFeatures ==
  PrepareFeatures \/ ReduceDimensions \/ Cluster \/ RepeatCluster \/ Return

SpecFeatures == InitFeatures /\ [][NextFeatures]_vars

(***************************************************************************)
(* Properties of the preference scorer.                                    *)
(***************************************************************************)
ScoreReturned == call.op = "score_by_preferences" /\ result.status = "ok"

\* The dataset row a result row was computed from
Source(r) == df.rows[r.index + 1]

\* The value of column c of a result row, 0 when the column was not added
Term(r, c) == IF c \in DOMAIN r THEN r[c] ELSE R(0)

\* C1: every row returned by score_by_preferences has recommendation_score >= 0.
C1_ScoreNeverNegative ==
  ScoreReturned =>
    \A i \in DOMAIN result.rows : RLe(R(0), result.rows[i].recommendation_score)

\* C2: no row whose city is in the preference record's exclude_cities appears
\* in the output of score_by_preferences.
C2_ExclusionCorrect ==
  ScoreReturned =>
    \A i \in DOMAIN result.rows :
      result.rows[i].city \notin Get(call.preferences, "exclude_cities", {})

C2_Witness ==
  /\ ScoreReturned
  /\ "exclude_cities" \in DOMAIN call.preferences
  /\ \E i \in DOMAIN df.rows : df.rows[i].city \in call.preferences.exclude_cities
  /\ result.rows # <<>>

\* rows are in non-increasing order of column c: no row is followed by a
\* row with a greater value
NonIncreasing(rows, c) ==
  \A i, j \in DOMAIN rows : i < j => ~RLt(rows[i][c], rows[j][c])

\* The terms of the score as the specification states them, from the
\* dataset and the preference record of the call.
SelectedCols ==
  PresentCols(Get(call.preferences, "selected_activities", <<>>), df.columns)

ActivityMean(d) ==
  Rat(SumSeq([i \in DOMAIN SelectedCols |-> d[SelectedCols[i]]]), Len(SelectedCols))

MaxActivityMean ==
  CHOOSE m \in {ActivityMean(df.rows[i]) : i \in DOMAIN df.rows} :
    \A j \in DOMAIN df.rows : RLe(ActivityMean(df.rows[j]), m)

\* mean of the selected activity scores over the dataset-wide maximum
NormalizedActivity(d) ==
  IF RLt(R(0), MaxActivityMean) THEN RDiv(ActivityMean(d), MaxActivityMean)
  ELSE ActivityMean(d)

\* 1.0 for an exact tier match, 0.5 for an adjacent tier, else 0
TierMatch(d) ==
  LET tier == budget_mapping[call.preferences.budget_level]
  IN  IF d.budget_numeric = tier THEN R(1)
      ELSE IF d.budget_numeric = tier + 1 \/ d.budget_numeric = tier - 1 THEN Rat(1, 2)
      ELSE R(0)

\* 1 - |temp - 22.5| / 30 clamped to [0, 1]; 0 without a summer temperature
ModerateTerm(d) ==
  IF "avg_temp_summer" \notin df.columns THEN R(0)
  ELSE LET dist == Abs(2 * d.avg_temp_summer - 45)
       IN  IF dist >= 60 THEN R(0) ELSE Rat(60 - dist, 60)

\* mean of the requested filter columns
FilterTerm(d) ==
  LET filters == Get(call.preferences, "special_filters", <<>>)
      present == PresentCols(filters, df.columns)
  IN  IF filters = <<>> THEN R(0)
      ELSE Rat(SumSeq([i \in DOMAIN present |-> d[present[i]]]), Len(filters))

\* the selected duration's flag
DurationTerm(d) ==
  LET duration_col == Get(call.preferences, "duration_col", None)
  IN  IF duration_col # None /\ duration_col \in df.columns THEN R(d[duration_col])
      ELSE R(0)

\* 0.1 x max(0, threshold - min(selected activity scores))
Penalty(d) ==
  LET threshold == Get(call.preferences, "activity_threshold", 0)
      shortfall == threshold - SeqMin([i \in DOMAIN SelectedCols |-> d[SelectedCols[i]]])
  IN  IF threshold > 0 /\ SelectedCols # <<>> /\ shortfall > 0 THEN Rat(shortfall, 10)
      ELSE R(0)

\* 0.4 A + 0.2 B + 0.15 T + 0.15 F of a result row
WeightedSum(r) ==
  RAdd(RAdd(RMul(Rat(2, 5), Term(r, "activity_score")),
            RMul(Rat(1, 5), Term(r, "budget_match"))),
       RAdd(RMul(Rat(3, 20), Term(r, "temp_score")),
            RMul(Rat(3, 20), FilterTerm(Source(r)))))

EmptyRecord == DOMAIN call.preferences = {}

ActivitiesAndBudgetOnly ==
  DOMAIN call.preferences = {"selected_activities", "budget_level"}

\* C7 as stated: an empty preference record scores every city 0, and a
\* record of selected_activities and budget_level only scores each city
\* 0.4 x normalized activity mean + 0.2 x budget match.
C7_OnlyPresentTermsContribute ==
  ScoreReturned =>
    \A i \in DOMAIN result.rows :
      LET r == result.rows[i]
      IN  /\ EmptyRecord => r.recommendation_score = R(0)
          /\ ActivitiesAndBudgetOnly =>
               r.recommendation_score =
                 RAdd(RMul(Rat(2, 5), NormalizedActivity(Source(r))),
                      RMul(Rat(1, 5), TierMatch(Source(r))))

\* C7 amended: the temperature preference defaults to moderate, so an empty
\* preference record scores every city 0.15 x the moderate temperature term
\* (0 when the dataset has no avg_temp_summer), and a record of
\* selected_activities and budget_level only scores each city 0.4 x
\* normalized activity mean + 0.2 x budget match + that temperature term.
C7_DefaultModerateTerm ==
  ScoreReturned =>
    \A i \in DOMAIN result.rows :
      LET r == result.rows[i]
          moderate == RMul(Rat(3, 20), ModerateTerm(Source(r)))
      IN  /\ EmptyRecord => r.recommendation_score = moderate
          /\ ActivitiesAndBudgetOnly =>
               r.recommendation_score =
                 RAdd(RAdd(RMul(Rat(2, 5), NormalizedActivity(Source(r))),
                           RMul(Rat(1, 5), TierMatch(Source(r)))),
                      moderate)

C7_Witness ==
  /\ ScoreReturned /\ ActivitiesAndBudgetOnly
  /\ "avg_temp_summer" \in df.columns
  /\ \E i, j \in DOMAIN result.rows :
       /\ NormalizedActivity(Source(result.rows[i])) = R(1)
       /\ TierMatch(Source(result.rows[i])) = R(1)
       /\ TierMatch(Source(result.rows[j])) = Rat(1, 2)

\* C8 as stated: the score is max(0, 0.4A + 0.2B + 0.15T + 0.15F + 0.10D -
\* penalty), the clamp being applied to the total including the duration term.
C8_ClampIncludesDuration ==
  ScoreReturned =>
    \A i \in DOMAIN result.rows :
      LET r == result.rows[i]
          total == RAdd(WeightedSum(r), RMul(Rat(1, 10), DurationTerm(Source(r))))
      IN  r.recommendation_score = ClipLower(RSub(total, Penalty(Source(r))), R(0))

\* C8 amended: the score is max(0, 0.4A + 0.2B + 0.15T + 0.15F - penalty) +
\* 0.10D: the penalty and the clamp come before the duration term is added
\* (an undefined temperature term leaves the score undefined).
C8_ClampBeforeDuration ==
  ScoreReturned =>
    \A i \in DOMAIN result.rows :
      LET r == result.rows[i]
      IN  r.recommendation_score =
            RAdd(ClipLower(RSub(WeightedSum(r), Penalty(Source(r))), R(0)),
                 RMul(Rat(1, 10), DurationTerm(Source(r))))

C8_Witness ==
  /\ ScoreReturned
  /\ \E i \in DOMAIN result.rows :
       LET r == result.rows[i]
       IN  /\ DurationTerm(Source(r)) = R(1)
           /\ RLt(WeightedSum(r), Penalty(Source(r)))
           /\ r.recommendation_score = Rat(1, 10)

\* C9: the normalized activity score of every city lies in [0, 1], so the
\* activity-match term lies in [0, 0.4].
C9_ActivityTermBounded ==
  (ScoreReturned /\ Get(call.preferences, "selected_activities", <<>>) # <<>>) =>
    \A i \in DOMAIN result.rows :
      /\ "activity_score" \in DOMAIN result.rows[i]
      /\ RLe(R(0), result.rows[i].activity_score)
      /\ RLe(result.rows[i].activity_score, R(1))

C9_Witness ==
  /\ ScoreReturned
  /\ \E i, j \in DOMAIN result.rows :
       /\ "activity_score" \in DOMAIN result.rows[i]
       /\ result.rows[i].activity_score = R(1)
       /\ RLt(R(1), ActivityMean(Source(result.rows[i])))
       /\ RLt(R(0), result.rows[j].activity_score)
       /\ RLt(result.rows[j].activity_score, R(1))

\* rows with equal scores are in dataset order
TiesInDatasetOrder(rows) ==
  \A i, j \in DOMAIN rows :
    (i < j /\ rows[i].recommendation_score = rows[j].recommendation_score) =>
      rows[i].index < rows[j].index

\* rows of the dataset that the exclusion keeps
NotExcluded ==
  SelectSeq(df.rows,
            LAMBDA d : d.city \notin Get(call.preferences, "exclude_cities", {}))

\* C10 as stated: the output is in non-increasing order of score, equal
\* scores in dataset order, and an empty preference record returns the first
\* top_n dataset rows in dataset order.
C10_StableDescending ==
  ScoreReturned =>
    /\ NonIncreasing(result.rows, "recommendation_score")
    /\ TiesInDatasetOrder(result.rows)
    /\ EmptyRecord =>
         /\ Len(result.rows) = Min2(call.top_n, Len(df.rows))
         /\ \A i \in DOMAIN result.rows : result.rows[i].index = i - 1

\* C10 amended: the output is the min(top_n, rows left by the exclusion)
\* rows in non-increasing order of score; rows with equal scores come in no
\* guaranteed order, and an empty preference record is ranked by the default
\* moderate temperature term, not returned in dataset order.
C10_Descending ==
  ScoreReturned =>
    /\ NonIncreasing(result.rows, "recommendation_score")
    /\ Len(result.rows) = Min2(call.top_n, Len(NotExcluded))
    /\ \A i, j \in DOMAIN result.rows : i # j => result.rows[i].index # result.rows[j].index

C10_Witness ==
  /\ ScoreReturned
  /\ \E i, j \in DOMAIN result.rows :
       /\ i < j
       /\ RLt(result.rows[j].recommendation_score, result.rows[i].recommendation_score)
       /\ result.rows[j].index < result.rows[i].index

(***************************************************************************)
(* Properties of the similarity engine and of the orchestrator.            *)
(***************************************************************************)
SimilarReturned == call.op = "similar_cities" /\ result.status = "ok"

TargetCity == Get(call.user_selections, "target_city", None)

RecommendCalled ==
  call.op = "recommend" /\ call.method \in {"preferences", "similarity", "hybrid"}

InDataset(city) == \E i \in DOMAIN df.rows : df.rows[i].city = city

\* C3: the reference city is not in the result of similar_cities, and the
\* target city, when set, is not in the result of recommend in preferences,
\* similarity or hybrid mode.
C3_ReferenceNeverReturned ==
  /\ SimilarReturned =>
       \A i \in DOMAIN result.rows : result.rows[i].city # call.reference_city
  /\ (RecommendCalled /\ result.status = "ok" /\ TargetCity # None) =>
       \A i \in DOMAIN result.rows : result.rows[i].city # TargetCity

C3_Witness ==
  /\ RecommendCalled /\ call.method = "hybrid"
  /\ result.status = "ok"
  /\ TargetCity # None /\ InDataset(TargetCity)
  /\ result.rows # <<>>

\* C4: when the reference city name matches a row, similar_cities returns
\* every record other than the reference record exactly once, in
\* non-increasing order of similarity_score.
C4_AllOtherRecordsReturned ==
  (SimilarReturned /\ InDataset(call.reference_city)) =>
    LET ref == CHOOSE i \in DOMAIN df.rows :
                 /\ df.rows[i].city = call.reference_city
                 /\ \A j \in 1..(i - 1) : df.rows[j].city # call.reference_city
    IN  /\ Len(result.rows) = Len(df.rows) - 1
        /\ \A i \in DOMAIN df.rows \ {ref} :
             Cardinality({j \in DOMAIN result.rows :
                            /\ result.rows[j].city = df.rows[i].city
                            /\ result.rows[j].country = df.rows[i].country}) = 1
        /\ NonIncreasing(result.rows, "similarity_score")

\* C5: similar_cities with a reference city that matches no row returns an
\* empty result and raises nothing.
C5_MissingReferenceEmpty ==
  (call.op = "similar_cities" /\ ~InDataset(call.reference_city)) =>
    result.status = "ok" /\ result.rows = <<>>

C5_Witness ==
  /\ call.op = "similar_cities"
  /\ ~InDataset(call.reference_city)
  /\ result.status = "ok"

\* C6: recommend in preferences, similarity or hybrid mode with a target city
\* that matches no row of the dataset (here one that has every column)
\* raises nothing.
C6_MissingTargetNeverRaises ==
  (RecommendCalled /\ TargetCity # None /\ ~InDataset(TargetCity)
     /\ df.columns = AllColumns) =>
    result.status = "ok"

HybridCalled == call.op = "recommend" /\ call.method = "hybrid"

\* The similarity scores the similarity engine gives the records named city
SimilarityMatches(city) ==
  LET sim == calculate_city_similarity(
               df, TargetCity, Some(Get(call.user_selections, "selected_activities", <<>>)),
               "stable")
  IN  {sim.rows[i].similarity_score : i \in {j \in DOMAIN sim.rows : sim.rows[j].city = city}}

\* C11: in hybrid mode with a target city of the dataset, recommend returns
\* at most top_n rows, each with hybrid_score = 0.6 x recommendation_score +
\* 0.4 x similarity_score, the similarity_score being one the similarity
\* engine gives that city (0 without a match), in non-increasing order of
\* hybrid_score.
C11_HybridScoreAndOrder ==
  (HybridCalled /\ result.status = "ok" /\ TargetCity # None /\ InDataset(TargetCity)) =>
    /\ Len(result.rows) <= call.top_n
    /\ \A i \in DOMAIN result.rows :
         LET r == result.rows[i]
         IN  /\ "hybrid_score" \in DOMAIN r
             /\ r.hybrid_score =
                  RAdd(RMul(Rat(6, 10), r.recommendation_score),
                       RMul(Rat(4, 10), r.similarity_score))
             /\ IF SimilarityMatches(r.city) = {} THEN r.similarity_score = R(0)
                ELSE r.similarity_score \in SimilarityMatches(r.city)
    /\ NonIncreasing(result.rows, "hybrid_score")

C11_Witness ==
  /\ HybridCalled /\ result.status = "ok"
  /\ TargetCity # None /\ InDataset(TargetCity)
  /\ Len(result.rows) = call.top_n
  /\ \E i, j \in DOMAIN result.rows :
       /\ RLt(result.rows[j].hybrid_score, result.rows[i].hybrid_score)
       /\ RLt(R(0), result.rows[j].similarity_score)
       /\ RLt(R(0), result.rows[j].recommendation_score)
       /\ result.rows[j].hybrid_score # result.rows[j].recommendation_score

\* C12: recommend in hybrid mode with no target city returns what recommend
\* in preferences mode returns for the same dataset, user selections and
\* top_n (under the same order of ties): the same rows, columns and scores,
\* or the same exception.
C12_HybridWithoutTargetIsPreferences ==
  (HybridCalled /\ ~Truthy(TargetCity)) =>
    \A kind \in SortKinds :
      result = get_personalized_recommendations(df, call.user_selections, "hybrid",
                                                call.top_n, kind)
        => result = get_personalized_recommendations(df, call.user_selections,
                                                     "preferences", call.top_n, kind)

C12_Witness ==
  /\ HybridCalled /\ ~Truthy(TargetCity)
  /\ result.status = "ok"
  /\ Len(result.rows) = call.top_n
  /\ Len(df.rows) > call.top_n
  /\ \E i \in DOMAIN result.rows :
       RLt(R(0), result.rows[i].recommendation_score)

\* C13: no city record (city + country) appears more than once in the
\* result of recommend, in any mode.
C13_Deduplicated ==
  (RecommendCalled /\ result.status = "ok") =>
    \A i, j \in DOMAIN result.rows :
      (result.rows[i].city = result.rows[j].city
         /\ result.rows[i].country = result.rows[j].country) => i = j

\* The caller's full preference record: every preference of the user
\* selections, with the target city added to the excluded cities.
FullPreferenceRecord ==
  LET own == [k \in DOMAIN call.user_selections \ {"target_city", "exclude_cities"}
                |-> call.user_selections[k]]
      excluded == Get(call.user_selections, "exclude_cities", {})
                    \cup (IF Truthy(TargetCity) THEN {TargetCity} ELSE {})
  IN  own @@ ("exclude_cities" :> excluded)

\* C14: the result of recommend in preferences mode is that of
\* score_by_preferences on the same dataset and top_n with the caller's full
\* preference record plus the target city among the excluded cities.
C14_PreferencesModeDelegates ==
  (call.op = "recommend" /\ call.method = "preferences") =>
    \A kind \in SortKinds :
      result = get_personalized_recommendations(df, call.user_selections, "preferences",
                                                call.top_n, kind)
        => result = recommend_cities_by_preferences(df, FullPreferenceRecord,
                                                    call.top_n, kind)

(***************************************************************************)
(* Properties of the feature preparation, the dimensionality reducer and   *)
(* the cluster engine.                                                     *)
(***************************************************************************)
\* The canonical feature names that are columns of the dataset
CanonicalPresent == {numeric_features[j] : j \in DOMAIN numeric_features} \cap df.columns

\* The position of a name in the canonical list
CanonicalPosition(c) == CHOOSE j \in DOMAIN numeric_features : numeric_features[j] = c

\* C15: prepare_features returns as feature names the canonical names that
\* are columns of the dataset, in canonical order, and a feature table of
\* exactly those columns with one row per input row, in input order, that
\* keeps every defined cell; it raises nothing when canonical columns are
\* absent.
C15_CanonicalFeaturesInOrder ==
  call.op = "prepare_features" =>
    /\ result.status = "ok"
    /\ {result.feature_names[j] : j \in DOMAIN result.feature_names} = CanonicalPresent
    /\ \A a, b \in DOMAIN result.feature_names :
         a < b => CanonicalPosition(result.feature_names[a])
                    < CanonicalPosition(result.feature_names[b])
    /\ result.columns = CanonicalPresent
    /\ Len(result.rows) = Len(df.rows)
    /\ \A i \in DOMAIN result.rows :
         /\ result.rows[i].index = df.rows[i].index
         /\ DOMAIN result.rows[i] = CanonicalPresent \cup {"index"}
         /\ \A c \in CanonicalPresent \cap DOMAIN df.rows[i] :
              result.rows[i][c] = R(df.rows[i][c])

C15_Witness ==
  /\ call.op = "prepare_features"
  /\ "nature" \notin df.columns
  /\ result.feature_names = <<"culture", "avg_temp_summer">>
  /\ Len(result.rows) = 3
  /\ result.rows[1].index = 3

\* The rows of the dataset that have a value in column c
Defined(c) == {i \in DOMAIN df.rows : c \in DOMAIN df.rows[i]}

\* The mean of the defined values of column c
DefinedMean(c) ==
  Rat(SumSeq([i \in DOMAIN df.rows |-> IF i \in Defined(c) THEN df.rows[i][c] ELSE 0]),
      Cardinality(Defined(c)))

\* C16: for a dataset of at least one row the feature table has no missing
\* cell: a missing cell holds the mean of its column's defined values, or 0
\* when the column has no defined value.
C16_NoMissingCell ==
  (call.op = "prepare_features" /\ Len(df.rows) >= 1) =>
    \A i \in DOMAIN result.rows : \A c \in result.columns :
      /\ ~IsNaN(result.rows[i][c])
      /\ c \notin DOMAIN df.rows[i] =>
           result.rows[i][c] = (IF Defined(c) = {} THEN R(0) ELSE DefinedMean(c))

\* C17: prepare_features, similar_cities and score_by_preferences raise
\* nothing, whatever canonical feature column the dataset lacks.
C17_AbsentColumnNeverFatal ==
  call.op \in {"prepare_features", "similar_cities", "score_by_preferences"} =>
    result.status = "ok"

ReduceReturned == call.op = "reduce_dimensions" /\ result.status = "ok"

\* The cumulative explained-variance ratio of the first k components
Cumulative(k) == RSum(SubSeq(call.ratios, 1, k))

\* The component counts whose cumulative ratio is >= the threshold
Reaching == {k \in DOMAIN call.ratios : RLe(call.threshold, Cumulative(k))}

\* The columns PC1 .. PCk
Components(k) == {PCName(j) : j \in 1..k}

\* C18: called without a component count, reduce_dimensions retains the
\* smallest number of components whose cumulative explained-variance ratio is
\* >= the threshold (when some number of components reaches it), capped at
\* the number of available features.
C18_SmallestSufficientCount ==
  (ReduceReturned /\ call.n_components = Absent /\ Reaching # {}) =>
    LET k == CHOOSE a \in Reaching : \A b \in Reaching : a <= b
        retained == Min2(k, Cardinality(CanonicalPresent))
    IN  /\ Len(result.explained_variance_ratio) = retained
        /\ result.columns = {"city", "country", "region"} \cup Components(retained)
        /\ \A i \in DOMAIN result.rows :
             DOMAIN result.rows[i]
               = {"index", "city", "country", "region"} \cup Components(retained)

C18_Witness ==
  /\ ReduceReturned /\ call.n_components = Absent
  /\ call.threshold = Rat(19, 20)
  /\ Len(call.ratios) = 3
  /\ RLt(Cumulative(1), call.threshold)
  /\ RLe(call.threshold, Cumulative(2))
  /\ Len(result.explained_variance_ratio) = 2

ClusterReturned == call.op = "cluster" /\ result.status = "ok"

\* The standardized feature rows of the dataset, in input order
Standardized ==
  LET prep == prepare_features_for_clustering(df)
  IN  fit_transform(prep.rows, prep.feature_names)

\* C19: the tables of reduce_dimensions and cluster have as many rows as the
\* dataset; at position i they hold the city, country (and region) of the
\* dataset's row i and the projection, or the label, of that row, whatever
\* the index of the dataset.
C19_RowAligned ==
  /\ ReduceReturned =>
       /\ Len(result.rows) = Len(df.rows)
       /\ \A i \in DOMAIN result.rows :
            \A c \in {"city", "country", "region"} : result.rows[i][c] = df.rows[i][c]
       /\ [i \in DOMAIN result.rows |->
             {result.rows[i][c].of :
                c \in DOMAIN result.rows[i] \ {"index", "city", "country", "region"}}]
            = [i \in DOMAIN df.rows |-> {Standardized[i]}]
  /\ ClusterReturned =>
       /\ Len(result.rows) = Len(df.rows)
       /\ \A i \in DOMAIN result.rows :
            /\ \A c \in DOMAIN df.rows[i] : result.rows[i][c] = df.rows[i][c]
            /\ "cluster" \in DOMAIN result.rows[i]
       /\ [i \in DOMAIN result.rows |-> result.rows[i].cluster]
            = fit_predict(Standardized, result.n_clusters, 42)

C19_Witness ==
  /\ ClusterReturned
  /\ Len(df.rows) = 3
  /\ df.rows[1].index = 3
  /\ \E i, j \in DOMAIN result.rows : result.rows[i].cluster # result.rows[j].cluster

C21_SmallDatasetRefused ==
  (call.op \in {"reduce_dimensions", "cluster"} /\ Len(df.rows) < 3) =>
    /\ result.status # "ok"
    /\ result.rows = <<>>

C23_EqualTemperaturesDefined ==
  ( /\ ScoreReturned
    /\ Get(call.preferences, "avg_temp_preference", "moderate") \in {"warm", "cold"}
    /\ "avg_temp_summer" \in df.columns
    /\ \A i, j \in DOMAIN df.rows : df.rows[i].avg_temp_summer = df.rows[j].avg_temp_summer )
  => \A i \in DOMAIN result.rows : ~IsNaN(result.rows[i].recommendation_score)

\* A cluster call without K has returned
SearchReturned == ClusterReturned /\ call.n_clusters = Absent

\* C24: called without K, cluster evaluates exactly the candidates 2 through
\* min(10, floor(rows / 10) + 1), inclusive.
C24_CandidatesThroughTenthPlusOne ==
  SearchReturned =>
    DOMAIN result.evaluated = 2..Min2(10, Len(df.rows) \div 10 + 1)

\* C24 amended: called without K, cluster evaluates exactly the candidates 2
\* through min(10, floor(rows / 10)), inclusive (none for fewer than 20
\* rows), each by one clustering fit with the fixed seed.
C24_CandidatesThroughTenth ==
  SearchReturned =>
    /\ DOMAIN result.evaluated = 2..Min2(10, Len(df.rows) \div 10)
    /\ \A k \in DOMAIN result.evaluated :
         result.evaluated[k] = FitAndScore(Standardized, k, 42).value

C24_Witness ==
  /\ SearchReturned
  /\ Len(df.rows) = 30
  /\ DOMAIN result.evaluated = {2, 3}
  /\ result.evaluated[2] # result.evaluated[3]

\* C25: called without K, the K that cluster reports and uses for the final
\* fit is an evaluated candidate of maximal quality score, the smallest such
\* on ties, and 2 when no candidate is evaluated; so 2 <= K <= 10.
C25_BestCandidateChosen ==
  SearchReturned =>
    LET evaluated == result.evaluated
        K == result.n_clusters
    IN  /\ DOMAIN evaluated = {} => K = 2
        /\ DOMAIN evaluated # {} =>
             /\ K \in DOMAIN evaluated
             /\ \A k \in DOMAIN evaluated :
                  /\ RLe(evaluated[k], evaluated[K])
                  /\ evaluated[k] = evaluated[K] => K <= k
        /\ K \in 2..10
        /\ \A n \in 0..MaxCities : k_range(n) \subseteq 2..10
        /\ [i \in DOMAIN result.rows |-> result.rows[i].cluster]
             = fit_predict(Standardized, K, 42)

C25_Witness ==
  /\ SearchReturned
  /\ DOMAIN result.evaluated = {2, 3}
  /\ RLt(result.evaluated[2], result.evaluated[3])
  /\ result.n_clusters = 3

\* The rows the preference scorer scores for the selections of the call
AllCandidates ==
  ScoredCandidates(df, OrchestratorPreferences(call.user_selections)).rows

\* The number of scored rows with a preference score above `score`
RankOf(score) ==
  Cardinality({j \in DOMAIN AllCandidates :
                 RLt(score, AllCandidates[j].recommendation_score)})

\* C26: in hybrid mode every returned city is one of the 2 x top_n cities of
\* highest preference score: fewer than 2 x top_n scored cities have a higher
\* preference score than a returned one, whatever the similarity to the
\* target city of the cities left out.
C26_ReturnedAmongCandidates ==
  (HybridCalled /\ result.status = "ok") =>
    \A i \in DOMAIN result.rows :
      /\ \E j \in DOMAIN AllCandidates :
           /\ AllCandidates[j].city = result.rows[i].city
           /\ AllCandidates[j].country = result.rows[i].country
           /\ AllCandidates[j].recommendation_score = result.rows[i].recommendation_score
      /\ RankOf(result.rows[i].recommendation_score) < 2 * call.top_n

\* A city left out of the candidates is more similar to the target city than
\* every returned city
C26_Witness ==
  /\ HybridCalled /\ result.status = "ok"
  /\ TargetCity # None /\ InDataset(TargetCity)
  /\ result.rows # <<>>
  /\ \E j \in DOMAIN AllCandidates :
       /\ RankOf(AllCandidates[j].recommendation_score) >= 2 * call.top_n
       /\ \A i \in DOMAIN result.rows :
            /\ result.rows[i].city # AllCandidates[j].city
            /\ \E s \in SimilarityMatches(AllCandidates[j].city) :
                 RLt(result.rows[i].similarity_score, s)

\* C27: when recommend returns its empty result (similarity mode with no
\* target city) while the displayed result set is not empty, the section's
\* filter of the displayed cities raises nothing and the user is shown the
\* message that there is nothing to recommend, not an error.
C27_EmptyResultShowsMessage ==
  ( /\ call.op = "show_recommendations"
    /\ call.method = "similarity"
    /\ ~Truthy(Get(call.user_selections, "target_city", None))
    /\ call.filtered_rows # <<>> )
  => result.shown = "info"

\* C28: for every displayed result set the ML analysis tab accepts (at least
\* 3 rows), the cluster-count slider it builds is well-formed, min 2 <=
\* default 3 <= max min(10, rows // 3), and the K it passes to cluster
\* satisfies 2 <= K < rows.
C28_SliderWellFormed ==
  (call.op = "show_ml_analysis_tab" /\ call.show_clustering /\ Len(df.rows) >= 3) =>
    /\ result.slider.min_value = 2
    /\ result.slider.value = 3
    /\ result.slider.max_value = Min2(10, Len(df.rows) \div 3)
    /\ result.slider.min_value <= result.slider.value
    /\ result.slider.value <= result.slider.max_value
    /\ result.n_clusters # Absent
    /\ 2 <= result.n_clusters[1]
    /\ result.n_clusters[1] < Len(df.rows)

(***************************************************************************)
(* Properties of the wizard.                                               *)
(***************************************************************************)
ResetPressed == click.button \in {"Start Over", "Plan New Trip"}

\* C29: over any sequence of wizard actions the page number of the session
\* stays within 1..5, so that a page is always routed, and a reset ("Start
\* Over", "Plan New Trip") leaves the session on page 1 with empty
\* selections and no cached trending cities.
C29_PageRoutedAndResetClean ==
  /\ session_state.page \in 1..5
  /\ ResetPressed =>
       /\ session_state.page = 1
       /\ session_state.selections = EmptySelections
       /\ session_state.random_cities = Absent

\* A trip is planned up to the results page, which finds no city; the user
\* starts over.
C29_Witness ==
  /\ click = [page |-> 5, button |-> "Start Over"]
  /\ session_state = InitialSession
  /\ rerun

TargetKeys == {"target_city", "target_region", "target_country"}

TargetsSet ==
  { k \in TargetKeys \cap DOMAIN session_state.selections :
      Truthy(session_state.selections[k]) }

\* C30: on every page after the destination page (page >= 2) exactly one of
\* target_city, target_region and target_country of the selections is set,
\* and the other two are null.
C30_ExactlyOneTarget ==
  session_state.page >= 2 =>
    /\ TargetKeys \subseteq DOMAIN session_state.selections
    /\ Cardinality(TargetsSet) = 1
    /\ \A k \in TargetKeys \ TargetsSet : session_state.selections[k] = None

\* "View This City" has been pressed on the results page
C30_Witness ==
  /\ click = [page |-> 5, button |-> "View This City"]
  /\ session_state.page = 5
  /\ TargetsSet = {"target_city"}

====
